---- MODULE Spec2Model ----
(***************************************************************************)
(* A model of the scout service: the base Scout workflow, the birthday,    *)
(* podcast-episode and flight-deal scouts, the two HTTP run endpoints and  *)
(* the command-line drivers.                                               *)
(*                                                                         *)
(* Conventions.                                                            *)
(*  - A Python str is a sequence of non-empty fragments whose              *)
(*    concatenation is the string; "" is << >>.  Spreadsheet cells and     *)
(*    date strings are split into single characters so that isdigit(),     *)
(*    int() and strptime() can inspect them.                               *)
(*  - Python None is the value None.                                       *)
(*  - A datetime is [day, tod]: the day's ordinal (days since the first    *)
(*    day of BaseYear) and the time of day, 0 being midnight exactly.      *)
(***************************************************************************)
EXTENDS Integers, Sequences, FiniteSets, TLC

\* Optional[T]: None is the empty sequence, a value v is <<v>>
None == << >>
Some(v) == <<v>>
\* Python truthiness of an Optional[str]
Truthy(o) == o /= None /\ o[1] /= << >>

(***************************************************************************)
(* Bounds of the model.                                                    *)
(***************************************************************************)
\* rows of a sheet the spreadsheet service may answer with (header included)
MaxRows == 3
\* items of one podcast search response
MaxItems == 2
\* destination airports searched (a prefix of the code's list)
NumAirports == 1
\* clock ticks (half days) that may pass during one behaviour
MaxTicks == 1
\* outbound dates searched per airport (self.search_months: the code's is 6)
search_months == 2

(***************************************************************************)
(* Strings                                                                 *)
(***************************************************************************)
DecimalChars == {"0", "1", "2", "3", "4", "5", "6", "7", "8", "9"}

\* U+00B2, a character of Unicode category No: str.isdigit() accepts it,
\* int() does not.
SuperscriptTwo == "SUPERSCRIPT TWO"

\* str.isdigit(): non-empty, and every character is a digit character
isdigit(s) ==
    /\ Len(s) > 0
    /\ \A i \in 1..Len(s) : s[i] \in DecimalChars \cup {SuperscriptTwo}

DigitValue(c) ==
    CASE c = "0" -> 0 [] c = "1" -> 1 [] c = "2" -> 2 [] c = "3" -> 3
      [] c = "4" -> 4 [] c = "5" -> 5 [] c = "6" -> 6 [] c = "7" -> 7
      [] c = "8" -> 8 [] c = "9" -> 9

\* int(s) raises ValueError unless s is a decimal literal
IntRaises(s) == Len(s) = 0 \/ \E i \in 1..Len(s) : s[i] \notin DecimalChars

RECURSIVE int(_)
int(s) ==
    IF Len(s) = 0 THEN 0
    ELSE 10 * int(SubSeq(s, 1, Len(s) - 1)) + DigitValue(s[Len(s)])

DigitChar(n) ==
    CASE n = 0 -> "0" [] n = 1 -> "1" [] n = 2 -> "2" [] n = 3 -> "3"
      [] n = 4 -> "4" [] n = 5 -> "5" [] n = 6 -> "6" [] n = 7 -> "7"
      [] n = 8 -> "8" [] n = 9 -> "9"

\* str(n) for n >= 0
RECURSIVE str(_)
str(n) == IF n < 10 THEN <<DigitChar(n)>> ELSE str(n \div 10) \o <<DigitChar(n % 10)>>

\* n formatted with at least w digits, zero padded (strftime's %Y, %m, %d)
RECURSIVE ZeroPad(_, _)
ZeroPad(s, w) == IF Len(s) >= w THEN s ELSE ZeroPad(<<"0">> \o s, w)

\* sep.join(parts)
RECURSIVE join(_, _)
join(sep, parts) ==
    IF Len(parts) = 0 THEN << >>
    ELSE IF Len(parts) = 1 THEN parts[1]
    ELSE parts[1] \o sep \o join(sep, Tail(parts))

\* s.split(c) for a one-character separator
RECURSIVE split(_, _)
split(s, c) ==
    IF \A i \in 1..Len(s) : s[i] /= c THEN <<s>>
    ELSE LET k == CHOOSE i \in 1..Len(s) : s[i] = c /\ \A j \in 1..(i - 1) : s[j] /= c
         IN  <<SubSeq(s, 1, k - 1)>> \o split(SubSeq(s, k + 1, Len(s)), c)

(***************************************************************************)
(* Calendar                                                                *)
(***************************************************************************)
Years == 2024..2026
BaseYear == CHOOSE y \in Years : \A z \in Years : y <= z

IsLeap(y) == (y % 4 = 0 /\ y % 100 /= 0) \/ y % 400 = 0

DaysInMonth(y, m) ==
    IF m = 2 THEN (IF IsLeap(y) THEN 29 ELSE 28)
    ELSE IF m \in {4, 6, 9, 11} THEN 30 ELSE 31

RECURSIVE DaysBeforeYear(_)
DaysBeforeYear(y) ==
    IF y <= BaseYear THEN 0
    ELSE DaysBeforeYear(y - 1) + (IF IsLeap(y - 1) THEN 366 ELSE 365)

RECURSIVE DaysBeforeMonth(_, _)
DaysBeforeMonth(y, m) ==
    IF m <= 1 THEN 0 ELSE DaysBeforeMonth(y, m - 1) + DaysInMonth(y, m - 1)

\* the ordinal of a calendar date
Ordinal(y, m, d) == DaysBeforeYear(y) + DaysBeforeMonth(y, m) + (d - 1)

\* the calendar date of an ordinal
FromOrdinal(n) ==
    LET y == CHOOSE yy \in Years :
                 DaysBeforeYear(yy) <= n /\ n < DaysBeforeYear(yy + 1)
        m == CHOOSE mm \in 1..12 :
                 /\ DaysBeforeMonth(y, mm) <= n - DaysBeforeYear(y)
                 /\ n - DaysBeforeYear(y) < DaysBeforeMonth(y, mm) + DaysInMonth(y, mm)
    IN  [year |-> y, month |-> m,
         day |-> n - DaysBeforeYear(y) - DaysBeforeMonth(y, m) + 1]

\* datetime + timedelta(days=k)
PlusDays(dt, k) == [day |-> dt.day + k, tod |-> dt.tod]

\* datetime comparison a >= b
DtGE(a, b) == a.day > b.day \/ (a.day = b.day /\ a.tod >= b.tod)

\* datetime.strftime("%Y-%m-%d")
strftime(dt) ==
    LET c == FromOrdinal(dt.day)
    IN  ZeroPad(str(c.year), 4) \o <<"-">> \o ZeroPad(str(c.month), 2)
            \o <<"-">> \o ZeroPad(str(c.day), 2)

\* whether datetime.strptime(s, "%Y-%m-%d") raises ValueError
strptimeRaises(s) ==
    LET p == split(s, "-")
    IN  \/ Len(p) /= 3
        \/ Len(p[1]) /= 4 \/ IntRaises(p[1])
        \/ Len(p[2]) \notin {1, 2} \/ IntRaises(p[2])
        \/ Len(p[3]) \notin {1, 2} \/ IntRaises(p[3])
        \/ int(p[2]) \notin 1..12
        \/ int(p[3]) < 1
        \/ int(p[3]) > DaysInMonth(int(p[1]), int(p[2]))

\* datetime.strptime(s, "%Y-%m-%d"): midnight of the day
strptime(s) ==
    LET p == split(s, "-")
    IN  [day |-> Ordinal(int(p[1]), int(p[2]), int(p[3])), tod |-> 0]


(***************************************************************************)
(* State                                                                   *)
(***************************************************************************)
VARIABLES
    driver,         \* the entry point that is running: an endpoint or a main()
    pc,             \* its position
    now,            \* the wall clock, what datetime.now() returns
    ticks,          \* clock ticks so far
    status,         \* the scout instance's status
    error_message,  \* the scout instance's error_message
    results,        \* the scout instance's results
    cfg,            \* the instance's credential fields, read from the environment
    subscribers,    \* the instance's subscribers
    gc,             \* BirthdayScout.gc
    worksheet,      \* BirthdayScout.worksheet
    spotify_api,    \* SpotifyScout.spotify_api
    target_url,     \* Scout.target_url
    all_flights,    \* fetch_flight_deals: the local all_flights
    search_idx,     \* fetch_flight_deals: index of the next (airport, date) pair
    sub_idx,        \* report_results: index of the next subscriber
    prompt_text,    \* report_results: the formatted text
    todays,         \* the driver's local list (todays_birthdays, search_dates)
    ret,            \* what the driver's last scout call returned
    response,       \* the endpoint's HTTP response, None while running
    calls,          \* history: call requests sent to the call provider in this run
    source_calls,   \* history: requests sent to the source provider in this run
    checked,        \* history: the configuration checks passed in this run
    trace,          \* history: the workflow steps executed in this run
    fetched,        \* history: the source provider's answer to this run's fetch
    todays_birthdays, \* report_results: the local todays_birthdays
    raised,         \* history: the exception that reached the driver's handler
    call_results,   \* history: what each call request of this run returned
    earlier         \* history: per earlier invocation served by this process,
                    \* the customer numbers it sent call requests to

vars == <<driver, pc, now, ticks, status, error_message, results, cfg, subscribers,
          gc, worksheet, spotify_api, target_url, all_flights, search_idx, sub_idx,
          prompt_text, todays, ret, response, calls, source_calls, checked, trace,
          fetched, todays_birthdays, raised, call_results, earlier>>

\* what os.getenv may return: unset, set to the empty string, set
EnvValues == {None, Some(<< >>), Some(<<"key">>)}
\* the same without the empty string, for the scouts that read many variables
SetOrUnset == {None, Some(<<"key">>)}

\* the first day the clock may show
StartDay == Ordinal(2025, 3, 14)

DefaultSubscribers == <<[name |-> <<"Daniela">>, phone |-> <<"9549559235">>]>>

\* a run on an instance that outlives the request: results, status and
\* error_message are those the run before left
Fresh_keeping_state(d, p, c, u) ==
    /\ driver' = d
    /\ pc' = p
    /\ cfg' = c
    /\ subscribers' = DefaultSubscribers
    /\ gc' = None
    /\ worksheet' = None
    /\ spotify_api' = None
    /\ target_url' = u
    /\ all_flights' = << >>
    /\ search_idx' = 0
    /\ sub_idx' = 0
    /\ prompt_text' = << >>
    /\ todays' = << >>
    /\ ret' = None
    /\ response' = None
    /\ calls' = << >>
    /\ source_calls' = 0
    /\ checked' = {}
    /\ trace' = << >>
    /\ fetched' = None
    /\ todays_birthdays' = << >>
    /\ raised' = None
    /\ call_results' = << >>
    /\ UNCHANGED <<now, ticks, status, error_message, results>>

\* a fresh instance and a fresh run: everything but the clock
Fresh(d, p, c, u) ==
    /\ driver' = d
    /\ pc' = p
    /\ cfg' = c
    /\ status' = "idle"
    /\ error_message' = None
    /\ results' = << >>
    /\ subscribers' = DefaultSubscribers
    /\ gc' = None
    /\ worksheet' = None
    /\ spotify_api' = None
    /\ target_url' = u
    /\ all_flights' = << >>
    /\ search_idx' = 0
    /\ sub_idx' = 0
    /\ prompt_text' = << >>
    /\ todays' = << >>
    /\ ret' = None
    /\ response' = None
    /\ calls' = << >>
    /\ source_calls' = 0
    /\ checked' = {}
    /\ trace' = << >>
    /\ fetched' = None
    /\ todays_birthdays' = << >>
    /\ raised' = None
    /\ call_results' = << >>
    /\ UNCHANGED <<now, ticks>>

Idle == pc = "idle"

JSONResponse(code, content) == Some([status_code |-> code, content |-> content])

(***************************************************************************)
(* The call provider: vapi_call.py                                         *)
(***************************************************************************)
\* what requests.post and the two calls on its response may do: answer,
\* raise a RequestException with a response (HTTPError) or without one
\* (ConnectionError), or raise another exception (response.json() on a body
\* that is no JSON raises a plain ValueError in requests before 2.27)
CallOutcomes == {"ok", "http_error", "request_exception", "other_exception"}

\* a Python object json.dumps cannot serialize, such as a set
NotJSON == "OBJECT NOT JSON SERIALIZABLE"

\* whether json.dumps(payload) succeeds: every template variable is a str
json_serializable(variable_values) ==
    \A k \in DOMAIN variable_values :
        \A i \in 1..Len(variable_values[k]) : variable_values[k][i] /= NotJSON

\* the payload make_call_with_variables builds; call_name is None or Some(str)
CallPayload(assistant_id, phone_number, variable_values, call_name) ==
    [assistantId |-> assistant_id,
     phoneNumberId |-> <<"43ed3451-7453-4681-aa40-ab8754875a2d">>,
     customer |-> [number |-> <<"+1">> \o phone_number],
     type |-> <<"outboundPhoneCall">>,
     assistantOverrides |-> [variableValues |-> variable_values],
     name |-> IF Truthy(call_name) THEN call_name ELSE None]

\* what make_call_with_variables returns when it does not raise
CallResult(outcome) ==
    IF outcome = "ok"
    THEN [error |-> FALSE, id |-> Some(<<"call-id">>), message |-> None,
          status_code |-> None]
    ELSE [error |-> TRUE, id |-> None, message |-> Some(<<outcome>>),
          status_code |-> IF outcome = "http_error" THEN Some(400) ELSE None]

\* make_call_with_variables: the payload, whether the request was sent,
\* the exception that leaves the method (None when it returns) and the result
make_call_with_variables(assistant_id, phone_number, variable_values, call_name, outcome) ==
    LET payload == CallPayload(assistant_id, phone_number, variable_values, call_name)
    IN  IF ~json_serializable(variable_values)
        THEN [payload |-> payload, sent |-> FALSE, result |-> None,
              exception |-> Some(<<"Object of type set is not JSON serializable">>)]
        ELSE IF outcome = "other_exception"
        THEN [payload |-> payload, sent |-> TRUE, result |-> None,
              exception |-> Some(<<outcome>>)]
        ELSE [payload |-> payload, sent |-> TRUE, result |-> Some(CallResult(outcome)),
              exception |-> None]

(***************************************************************************)
(* BirthdayScout                                                           *)
(***************************************************************************)
BirthdayScout_init(private_api_key, assistant_id) ==
    [vapi_private_api_key |-> private_api_key, vapi_assistant_id |-> assistant_id]

\* check_vapi_config without its second test
check_vapi_config_key_only(c, em) ==
    IF ~Truthy(c.vapi_private_api_key)
    THEN [ok |-> FALSE,
          error_message |-> Some(<<"PRIVATE_API_KEY environment variable not set">>)]
    ELSE [ok |-> TRUE, error_message |-> em]

\* check_vapi_config: [ok, error_message]
BirthdayScout_check_vapi_config(c, em) ==
    IF ~Truthy(c.vapi_private_api_key)
    THEN [ok |-> FALSE,
          error_message |-> Some(<<"PRIVATE_API_KEY environment variable not set">>)]
    ELSE IF ~Truthy(c.vapi_assistant_id)
    THEN [ok |-> FALSE,
          error_message |-> Some(<<"ASSISTANT_ID environment variable not set">>)]
    ELSE [ok |-> TRUE, error_message |-> em]

\* the dict fetch_birthdays builds from one row (row[i] of the code is row[i + 1])
birthday_record(row) ==
    [name |-> IF Len(row) > 1 /\ row[2] /= << >> THEN row[2] ELSE << >>,
     year |-> IF Len(row) > 2 /\ row[3] /= << >> /\ isdigit(row[3])
                    /\ row[3] /= <<"n", "u", "l", "l">>
              THEN Some(row[3]) ELSE None,
     month |-> IF Len(row) > 3 /\ row[4] /= << >> /\ isdigit(row[4])
               THEN Some(int(row[4])) ELSE None,
     day |-> IF Len(row) > 4 /\ row[5] /= << >> /\ isdigit(row[5])
             THEN Some(int(row[5])) ELSE None]

\* whether building the dict raises: int() of a cell that passed isdigit()
birthday_record_raises(row) ==
    \/ Len(row) > 3 /\ row[4] /= << >> /\ isdigit(row[4]) /\ IntRaises(row[4])
    \/ Len(row) > 4 /\ row[5] /= << >> /\ isdigit(row[5]) /\ IntRaises(row[5])

\* "Only add if we have at least a name and date": the truthiness of the three
birthday_record_kept(r) ==
    /\ r.name /= << >>
    /\ r.month /= None /\ r.month[1] /= 0
    /\ r.day /= None /\ r.day[1] /= 0

\* the loop of fetch_birthdays over the rows after the header
RECURSIVE birthday_rows(_)
birthday_rows(rows) ==
    IF Len(rows) = 0 THEN << >>
    ELSE LET row == rows[1]
             rest == birthday_rows(Tail(rows))
         IN  IF Len(row) >= 4 /\ birthday_record_kept(birthday_record(row))
             THEN <<birthday_record(row)>> \o rest
             ELSE rest

\* whether the loop raises
birthday_rows_raise(rows) ==
    \E i \in 1..Len(rows) : Len(rows[i]) >= 4 /\ birthday_record_raises(rows[i])

\* fetch_birthdays initializing again whenever the worksheet is missing
fetch_birthdays_reinitializing(g, w, res, em, init, values) ==
    LET g1 == IF w = None /\ init /= "credentials_error" THEN Some("client") ELSE g
        w1 == IF w = None /\ init = "ok" THEN Some("worksheet") ELSE w
        init_requests == IF w = None /\ init /= "credentials_error" THEN 1 ELSE 0
        loaded == w = None /\ init /= "credentials_error"
        failed(msg, n) ==
            [status |-> "error", error_message |-> Some(<<"Fetch error: ", msg>>),
             results |-> res, gc |-> g1, worksheet |-> w1, ret |-> << >>,
             requests |-> n, loaded |-> loaded, asked |-> n > init_requests]
    IN  IF w = None /\ init /= "ok"
        THEN failed(init, init_requests)
        ELSE IF w1 = None
        THEN failed("'NoneType' object has no attribute 'get_all_values'", 0)
        ELSE IF values = None
        THEN failed("get_all_values", init_requests + 1)
        ELSE IF values[1] = << >>
        THEN [status |-> "completed", error_message |-> em, results |-> res,
              gc |-> g1, worksheet |-> w1, ret |-> << >>,
              requests |-> init_requests + 1, loaded |-> loaded, asked |-> TRUE]
        ELSE IF birthday_rows_raise(Tail(values[1]))
        THEN failed("invalid literal for int() with base 10", init_requests + 1)
        ELSE [status |-> "completed", error_message |-> em,
              results |-> birthday_rows(Tail(values[1])),
              gc |-> g1, worksheet |-> w1, ret |-> birthday_rows(Tail(values[1])),
              requests |-> init_requests + 1, loaded |-> loaded, asked |-> TRUE]

\* what fetch_birthdays does after self.status = "fetching".
\*   init: the outcome of _initialize_gspread, taken only when gc is None
\*   values: None when get_all_values raises, otherwise Some(rows)
\* The result holds the new fields, the returned list, the requests sent to
\* the spreadsheet service, whether the credentials were loaded and whether
\* the service was asked for the rows.
fetch_birthdays(g, w, res, em, init, values) ==
    LET g1 == IF g = None /\ init /= "credentials_error" THEN Some("client") ELSE g
        w1 == IF g = None /\ init = "ok" THEN Some("worksheet") ELSE w
        init_requests == IF g = None /\ init /= "credentials_error" THEN 1 ELSE 0
        loaded == g = None /\ init /= "credentials_error"
        failed(msg, n) ==
            [status |-> "error", error_message |-> Some(<<"Fetch error: ", msg>>),
             results |-> res, gc |-> g1, worksheet |-> w1, ret |-> << >>,
             requests |-> n, loaded |-> loaded, asked |-> n > init_requests]
    IN  IF g = None /\ init /= "ok"
        THEN failed(init, init_requests)
        ELSE IF w1 = None
        THEN failed("'NoneType' object has no attribute 'get_all_values'", 0)
        ELSE IF values = None
        THEN failed("get_all_values", init_requests + 1)
        ELSE IF values[1] = << >>
        THEN [status |-> "completed", error_message |-> em, results |-> res,
              gc |-> g1, worksheet |-> w1, ret |-> << >>,
              requests |-> init_requests + 1, loaded |-> loaded, asked |-> TRUE]
        ELSE IF birthday_rows_raise(Tail(values[1]))
        THEN failed("invalid literal for int() with base 10", init_requests + 1)
        ELSE [status |-> "completed", error_message |-> em,
              results |-> birthday_rows(Tail(values[1])),
              gc |-> g1, worksheet |-> w1, ret |-> birthday_rows(Tail(values[1])),
              requests |-> init_requests + 1, loaded |-> loaded, asked |-> TRUE]

\* get_todays_birthdays comparing the month alone
get_todays_birthdays_month_only(res, today) ==
    LET c == FromOrdinal(today.day)
    IN  SelectSeq(res, LAMBDA b : b.month = Some(c.month))

\* get_todays_birthdays without its test of month and day
get_todays_birthdays_all(res, today) == res

\* get_todays_birthdays
get_todays_birthdays(res, today) ==
    LET c == FromOrdinal(today.day)
    IN  SelectSeq(res, LAMBDA b : b.month = Some(c.month) /\ b.day = Some(c.day))

\* format_birthdays_for_prompt joining whatever it formatted, without the
\* two "No birthdays today" returns
format_birthdays_joined_only(birthdays) ==
    LET kept == SelectSeq(birthdays, LAMBDA b :
                    /\ b.name /= << >>
                    /\ b.month /= None /\ b.month[1] /= 0
                    /\ b.day /= None /\ b.day[1] /= 0)
        text(b) == b.name \o <<" (">> \o str(b.month[1]) \o <<"/">>
                       \o str(b.day[1]) \o <<")">>
        formatted == [i \in 1..Len(kept) |-> text(kept[i])]
    IN  join(<<", ">>, formatted)

\* format_birthdays_for_prompt
format_birthdays_for_prompt(birthdays) ==
    LET kept == SelectSeq(birthdays, LAMBDA b :
                    /\ b.name /= << >>
                    /\ b.month /= None /\ b.month[1] /= 0
                    /\ b.day /= None /\ b.day[1] /= 0)
        text(b) == b.name \o <<" (">> \o str(b.month[1]) \o <<"/">>
                       \o str(b.day[1]) \o <<")">>
        formatted == [i \in 1..Len(kept) |-> text(kept[i])]
    IN  IF Len(birthdays) = 0 THEN <<"No birthdays today">>
        ELSE IF Len(formatted) > 0 THEN join(<<", ">>, formatted)
        ELSE <<"No birthdays today">>

(***************************************************************************)
(* The spreadsheet service's answers                                       *)
(***************************************************************************)
HeaderRow == << << >>, << >>, << >>, << >> >>
AliceRow == << << >>, <<"A", "l", "i", "c", "e">>, <<"1", "9", "9", "0">>, <<"3">>,
               <<"1", "5">> >>

\* rows a sheet may hold: complete ones, and ones lacking a name, a month or
\* a day in each of the ways the code tests for
RowPool ==
    { AliceRow,
      << << >>, <<"B", "o", "b">>, << >>, <<"0", "3">>, <<"1", "4">> >>,
      << << >>, <<"H", "a", "l">>, <<"n", "u", "l", "l">>, <<"3">>, <<"1", "5">> >>,
      << << >>, << >>, <<"1", "9", "9", "0">>, <<"3">>, <<"1", "5">> >>,
      << << >>, <<"C", "a", "l">>, <<"1", "9", "9", "0">>, <<"x">>, <<"1", "5">> >>,
      << << >>, <<"D", "a", "n">>, <<"1", "9", "9", "0">>, <<"3">> >>,
      << << >>, <<"E", "v", "e">>, <<"2", "0", "0", "0">>, <<"0">>, <<"1", "5">> >>,
      << << >>, <<"F", "a", "y">>, <<"2", "0", "0", "0">>, <<SuperscriptTwo>>,
         <<"1", "5">> >>,
      << << >>, <<"G", "u", "s">> >> }

RECURSIVE SeqsUpTo(_, _)
SeqsUpTo(S, n) ==
    IF n = 0 THEN {<< >>}
    ELSE LET shorter == SeqsUpTo(S, n - 1)
         IN  shorter \cup {Append(q, e) : q \in {t \in shorter : Len(t) = n - 1}, e \in S}

\* what get_all_values may return: no rows, or a first row and then rows
Sheets ==
    {<< >>} \cup {<<h>> \o rows : h \in {HeaderRow, AliceRow},
                                  rows \in SeqsUpTo(RowPool, MaxRows - 1)}

InitOutcomes == {"credentials_error", "open_error", "ok"}

(***************************************************************************)
(* POST /birthday-scout/run: api.py run_birthday_scout                     *)
(***************************************************************************)
\* scout = BirthdayScout(...)
run_birthday_scout ==
    /\ Idle
    /\ UNCHANGED earlier
    /\ \E k \in EnvValues, a \in EnvValues :
           Fresh("run_birthday_scout", "check_vapi_config", BirthdayScout_init(k, a), None)

\* if not scout.check_vapi_config(): return JSONResponse(500, ...)
run_birthday_scout_check ==
    /\ driver = "run_birthday_scout" /\ pc = "check_vapi_config"
    /\ LET r == BirthdayScout_check_vapi_config(cfg, error_message)
       IN  /\ error_message' = r.error_message
           /\ IF r.ok
              THEN /\ pc' = "fetch_birthdays"
                   /\ checked' = checked \cup {"vapi"}
                   /\ UNCHANGED response
              ELSE /\ pc' = "done"
                   /\ response' = JSONResponse(500,
                          [success |-> FALSE,
                           error |-> <<"Vapi not configured. Check environment variables.">>])
                   /\ UNCHANGED checked
    /\ UNCHANGED <<driver, now, ticks, status, results, cfg, subscribers, gc, worksheet,
                   spotify_api, target_url, all_flights, search_idx, sub_idx,
                   prompt_text, todays, ret, calls, source_calls, trace,
                   fetched,
                   todays_birthdays, raised,
                   call_results, earlier>>

\* the answer to an empty fetch, reported as a success
no_birthdays_found_as_success ==
    JSONResponse(200, [success |-> TRUE,
                       message |-> <<"No birthdays found in spreadsheet">>])

\* "if not birthdays": the endpoint's answer to an empty fetch
no_birthdays_found ==
    JSONResponse(200, [success |-> FALSE,
                       message |-> <<"No birthdays found in spreadsheet">>])

\* fetch_birthdays: self.status = "fetching"
BirthdayScout_fetch_begin ==
    /\ driver = "run_birthday_scout" /\ pc = "fetch_birthdays"
    /\ status' = "fetching"
    /\ trace' = Append(trace, "fetch_birthdays")
    /\ pc' = "fetching"
    /\ UNCHANGED <<driver, now, ticks, error_message, results, cfg, subscribers, gc,
                   worksheet, spotify_api, target_url, all_flights, search_idx, sub_idx,
                   prompt_text, todays, ret, response, calls, source_calls, checked,
                   fetched,
                   todays_birthdays, raised,
                   call_results, earlier>>

\* the rest of fetch_birthdays, and the endpoint's "if not birthdays"
BirthdayScout_fetch_end ==
    /\ driver = "run_birthday_scout" /\ pc = "fetching"
    /\ \E init \in InitOutcomes, values \in {None} \cup {Some(v) : v \in Sheets} :
         LET r == fetch_birthdays(gc, worksheet, results, error_message, init, values)
         IN  /\ status' = r.status
             /\ error_message' = r.error_message
             /\ results' = r.results
             /\ gc' = r.gc
             /\ worksheet' = r.worksheet
             /\ fetched' = Some([at |-> now, asked |-> r.asked, status |-> r.status,
                                  answer |-> IF r.asked THEN values ELSE None,
                                  returned |-> r.ret,
                                  error_message |-> r.error_message,
                                  failed |-> /\ r.status = "error"
                                             /\ \/ r.requests > 0
                                                \/ gc = None /\ init = "credentials_error"])
             /\ ret' = Some(r.ret)
             /\ source_calls' = source_calls + r.requests
             /\ checked' = IF r.loaded THEN checked \cup {"source"} ELSE checked
             /\ IF r.ret = << >>
                THEN /\ pc' = "done"
                     /\ response' = no_birthdays_found
                ELSE /\ pc' = "get_todays_birthdays"
                     /\ UNCHANGED response
    /\ UNCHANGED <<driver, now, ticks, cfg, subscribers, spotify_api, target_url,
                   all_flights, search_idx, sub_idx, prompt_text, todays, calls, trace,
                   todays_birthdays, raised,
                   call_results, earlier>>

\* todays_birthdays = scout.get_todays_birthdays(), and "if not todays_birthdays"
run_birthday_scout_filter ==
    /\ driver = "run_birthday_scout" /\ pc = "get_todays_birthdays"
    /\ todays' = get_todays_birthdays(results, now)
    /\ trace' = Append(trace, "get_todays_birthdays")
    /\ IF todays' = << >>
       THEN /\ pc' = "done"
            /\ response' = JSONResponse(200,
                   [success |-> TRUE, message |-> <<"No birthdays today">>,
                    todays_birthdays |-> << >>])
       ELSE /\ pc' = "report_results"
            /\ UNCHANGED response
    /\ UNCHANGED <<driver, now, ticks, status, error_message, results, cfg, subscribers,
                   gc, worksheet, spotify_api, target_url, all_flights, search_idx,
                   sub_idx, prompt_text, ret, calls, source_calls, checked,
                   fetched,
                   todays_birthdays, raised,
                   call_results, earlier>>

\* the endpoint's answer once report_results has returned report_success
run_birthday_scout_response(report_success) ==
    JSONResponse(200,
        [success |-> report_success,
         message |-> <<"Birthday scout completed. Found ">> \o str(Len(todays))
                         \o <<" birthdays today.">>,
         todays_birthdays |-> todays])

\* report_results: self.status = "reporting"
BirthdayScout_report_begin ==
    /\ driver = "run_birthday_scout" /\ pc = "report_results"
    /\ status' = "reporting"
    /\ trace' = Append(trace, "report_results")
    /\ pc' = "reporting"
    /\ UNCHANGED <<driver, now, ticks, error_message, results, cfg, subscribers, gc,
                   worksheet, spotify_api, target_url, all_flights, search_idx, sub_idx,
                   prompt_text, todays, ret, response, calls, source_calls, checked,
                   fetched,
                   todays_birthdays, raised,
                   call_results, earlier>>

\* report_results up to the loop over the subscribers
BirthdayScout_report_prepare ==
    /\ driver = "run_birthday_scout" /\ pc = "reporting"
    /\ LET c == BirthdayScout_check_vapi_config(cfg, error_message)
           birthdays == get_todays_birthdays(results, now)
       IN  IF ~c.ok
           THEN /\ status' = "error"
                /\ error_message' = c.error_message
                /\ ret' = Some(FALSE)
                /\ response' = run_birthday_scout_response(FALSE)
                /\ pc' = "done"
                /\ UNCHANGED <<prompt_text, sub_idx, checked, todays_birthdays>>
           ELSE IF Len(subscribers) = 0
           THEN /\ status' = "error"
                /\ error_message' = Some(<<"No subscribers to report to">>)
                /\ ret' = Some(FALSE)
                /\ response' = run_birthday_scout_response(FALSE)
                /\ pc' = "done"
                /\ checked' = checked \cup {"vapi"}
                /\ UNCHANGED <<prompt_text, sub_idx, todays_birthdays>>
           ELSE IF Len(birthdays) = 0
           THEN /\ status' = "completed"
                /\ ret' = Some(TRUE)
                /\ response' = run_birthday_scout_response(TRUE)
                /\ pc' = "done"
                /\ checked' = checked \cup {"vapi"}
                /\ todays_birthdays' = birthdays
                /\ UNCHANGED <<error_message, prompt_text, sub_idx>>
           ELSE /\ prompt_text' = format_birthdays_for_prompt(birthdays)
                /\ todays_birthdays' = birthdays
                /\ sub_idx' = 1
                /\ pc' = "calling"
                /\ checked' = checked \cup {"vapi"}
                /\ UNCHANGED <<status, error_message, ret, response>>
    /\ UNCHANGED <<driver, now, ticks, results, cfg, subscribers, gc, worksheet,
                   spotify_api, target_url, all_flights, search_idx, todays, calls,
                   source_calls, trace, fetched, raised,
                   call_results, earlier>>

\* the loop body with one retry of a call request that returned an error
BirthdayScout_report_call_retrying ==
    /\ driver = "run_birthday_scout" /\ pc = "calling"
    /\ sub_idx <= Len(subscribers)
    /\ LET subscriber == subscribers[sub_idx]
           variable_values == [userFirstName |-> subscriber.name,
                               birthdays |-> prompt_text]
           call_name == <<"Birthday Alert: ">> \o str(Len(todays_birthdays))
                            \o <<" birthdays today">>
       IN  IF subscriber.phone = << >>
           THEN /\ sub_idx' = sub_idx + 1
                /\ UNCHANGED <<status, error_message, ret, response, pc, calls, trace,
                               call_results>>
           ELSE \E outcome \in CallOutcomes :
                  LET r == make_call_with_variables(cfg.vapi_assistant_id[1],
                               subscriber.phone, variable_values, Some(call_name),
                               outcome)
                  IN  /\ calls' = IF r.sent THEN Append(calls, r.payload) ELSE calls
                      /\ trace' = Append(trace, "make_call_with_variables")
                      /\ call_results' = IF r.exception = None
                                         THEN Append(call_results, r.result[1])
                                         ELSE call_results
                      /\ IF r.exception /= None
                         THEN /\ status' = "error"
                              /\ error_message' =
                                     Some(<<"Report error: ">> \o r.exception[1])
                              /\ ret' = Some(FALSE)
                              /\ response' = run_birthday_scout_response(FALSE)
                              /\ pc' = "done"
                              /\ UNCHANGED sub_idx
                         ELSE /\ sub_idx' = IF r.result[1].error /\ Len(calls) < sub_idx
                                          THEN sub_idx ELSE sub_idx + 1
                              /\ UNCHANGED <<status, error_message, ret, response, pc>>
    /\ UNCHANGED <<driver, now, ticks, results, cfg, subscribers, gc, worksheet,
                   spotify_api, target_url, all_flights, search_idx, prompt_text,
                   todays, source_calls, checked, fetched, todays_birthdays, raised,
                   earlier>>

\* one pass of the loop over the subscribers
BirthdayScout_report_call ==
    /\ driver = "run_birthday_scout" /\ pc = "calling"
    /\ sub_idx <= Len(subscribers)
    /\ LET subscriber == subscribers[sub_idx]
           variable_values == [userFirstName |-> subscriber.name,
                               birthdays |-> prompt_text]
           call_name == <<"Birthday Alert: ">> \o str(Len(todays_birthdays))
                            \o <<" birthdays today">>
       IN  IF subscriber.phone = << >>
           THEN /\ sub_idx' = sub_idx + 1
                /\ UNCHANGED <<status, error_message, ret, response, pc, calls, trace,
                               call_results>>
           ELSE \E outcome \in CallOutcomes :
                  LET r == make_call_with_variables(cfg.vapi_assistant_id[1],
                               subscriber.phone, variable_values, Some(call_name),
                               outcome)
                  IN  /\ calls' = IF r.sent THEN Append(calls, r.payload) ELSE calls
                      /\ trace' = Append(trace, "make_call_with_variables")
                      /\ call_results' = IF r.exception = None
                                         THEN Append(call_results, r.result[1])
                                         ELSE call_results
                      /\ IF r.exception /= None
                         THEN /\ status' = "error"
                              /\ error_message' =
                                     Some(<<"Report error: ">> \o r.exception[1])
                              /\ ret' = Some(FALSE)
                              /\ response' = run_birthday_scout_response(FALSE)
                              /\ pc' = "done"
                              /\ UNCHANGED sub_idx
                         ELSE /\ sub_idx' = sub_idx + 1
                              /\ UNCHANGED <<status, error_message, ret, response, pc>>
    /\ UNCHANGED <<driver, now, ticks, results, cfg, subscribers, gc, worksheet,
                   spotify_api, target_url, all_flights, search_idx, prompt_text,
                   todays, source_calls, checked, fetched, todays_birthdays, raised,
                   earlier>>

\* after the loop: self.status = "completed"; return True
BirthdayScout_report_end ==
    /\ driver = "run_birthday_scout" /\ pc = "calling"
    /\ sub_idx > Len(subscribers)
    /\ status' = "completed"
    /\ ret' = Some(TRUE)
    /\ response' = run_birthday_scout_response(TRUE)
    /\ pc' = "done"
    /\ UNCHANGED <<driver, now, ticks, error_message, results, cfg, subscribers, gc,
                   worksheet, spotify_api, target_url, all_flights, search_idx, sub_idx,
                   prompt_text, todays, calls, source_calls, checked, trace,
                   fetched,
                   todays_birthdays, raised,
                   call_results, earlier>>

(***************************************************************************)
(* SpotifyAPI and SpotifyScout                                             *)
(***************************************************************************)
SpotifyScout_init(client_id, client_secret, private_api_key, assistant_id, phone_id) ==
    [spotify_client_id |-> client_id, spotify_client_secret |-> client_secret,
     vapi_private_api_key |-> private_api_key, vapi_assistant_id |-> assistant_id,
     vapi_phone_number_id |-> phone_id]

\* check_spotify_config: [ok, error_message]
check_spotify_config(c, em) ==
    IF ~Truthy(c.spotify_client_id)
    THEN [ok |-> FALSE,
          error_message |-> Some(<<"SPOTIFY_CLIENT_ID environment variable not set">>)]
    ELSE IF ~Truthy(c.spotify_client_secret)
    THEN [ok |-> FALSE,
          error_message |-> Some(<<"SPOTIFY_CLIENT_SECRET environment variable not set">>)]
    ELSE [ok |-> TRUE, error_message |-> em]

\* check_vapi_config of SpotifyScout: [ok, error_message]
SpotifyScout_check_vapi_config(c, em) ==
    IF ~Truthy(c.vapi_private_api_key)
    THEN [ok |-> FALSE,
          error_message |-> Some(<<"PRIVATE_API_KEY environment variable not set">>)]
    ELSE IF ~Truthy(c.vapi_assistant_id)
    THEN [ok |-> FALSE,
          error_message |-> Some(<<"ASSISTANT_ID environment variable not set">>)]
    ELSE IF ~Truthy(c.vapi_phone_number_id)
    THEN [ok |-> FALSE,
          error_message |-> Some(<<"PHONE_NUMBER_ID environment variable not set">>)]
    ELSE [ok |-> TRUE, error_message |-> em]

\* the window fetch_physics_episodes keeps: release_date >= sixty_days_ago
fetch_window_days == 60
in_fetch_window(release_date, today) ==
    DtGE(release_date, PlusDays(today, 0 - fetch_window_days))

\* whether the loop over the items keeps this item (a dict)
episode_kept(episode, today) ==
    /\ episode.release_date /= << >>
    /\ ~strptimeRaises(episode.release_date)
    /\ in_fetch_window(strptime(episode.release_date), today)

\* the loop of fetch_physics_episodes over search_results["episodes"]["items"]
RECURSIVE episode_items(_, _)
episode_items(items, today) ==
    IF Len(items) = 0 THEN << >>
    ELSE LET rest == episode_items(Tail(items), today)
         IN  IF episode_kept(items[1][1], today) THEN <<items[1][1]>> \o rest ELSE rest

\* what fetch_physics_episodes does after self.status = "fetching".
\*   token_ok: whether the token request succeeds, asked only without a token
\*   search: None when the search request raises, otherwise Some(response)
fetch_physics_episodes(api, c, res, em, today, token_ok, search) ==
    LET configured == Truthy(c.spotify_client_id) /\ Truthy(c.spotify_client_secret)
        api1 == IF api = None /\ configured THEN Some([access_token |-> None]) ELSE api
        has_token == api1 /= None /\ api1[1].access_token /= None
        api2 == IF api1 /= None /\ ~has_token /\ token_ok
                THEN Some([access_token |-> Some("token")]) ELSE api1
        token_requests == IF has_token THEN 0 ELSE 1
        failed(msg, a, n) ==
            [status |-> "error", error_message |-> Some(<<"Fetch error: ", msg>>),
             results |-> res, spotify_api |-> a, ret |-> << >>, requests |-> n,
             asked |-> n > token_requests]
    IN  IF api1 = None
        THEN failed("SPOTIFY_CLIENT_ID and SPOTIFY_CLIENT_SECRET environment variables are required",
                    api1, 0)
        ELSE IF ~has_token /\ ~token_ok
        THEN failed("token request", api1, 1)
        ELSE IF search = None
        THEN failed("search request", api2, token_requests + 1)
        ELSE IF ~search[1].has_episodes
        THEN failed("'episodes'", api2, token_requests + 1)
        ELSE IF \E i \in 1..Len(search[1].items) : search[1].items[i] = None
        THEN failed("'NoneType' object has no attribute 'get'", api2, token_requests + 1)
        ELSE [status |-> "completed", error_message |-> em,
              results |-> episode_items(search[1].items, today),
              spotify_api |-> api2, ret |-> episode_items(search[1].items, today),
              requests |-> token_requests + 1, asked |-> TRUE]

\* format_episodes_for_prompt
format_episodes_for_prompt(episodes) ==
    LET kept == SelectSeq(episodes, LAMBDA e : e.name /= << >> /\ e.release_date /= << >>)
        duration_str(ms) ==
            IF ms /= 0
            THEN str((ms \div 1000) \div 60) \o <<"m ">> \o str((ms \div 1000) % 60) \o <<"s">>
            ELSE <<"Unknown duration">>
        text(e) == e.name \o <<" (Released: ">> \o e.release_date \o <<", Duration: ">>
                       \o duration_str(e.duration_ms) \o <<")">>
        formatted == [i \in 1..Len(kept) |-> text(kept[i])]
    IN  IF Len(episodes) = 0 THEN <<"No physics episodes released in the past week">>
        ELSE IF Len(formatted) > 0 THEN join(<<"\n">>, formatted)
        ELSE <<"No physics episodes released in the past week">>

(***************************************************************************)
(* The podcast search service's answers                                    *)
(***************************************************************************)
DateStr(d) == strftime([day |-> d, tod |-> 0])

Episode(n, d, ms) == Some([name |-> n, release_date |-> d, duration_ms |-> ms])

\* items a search response may hold: released today, on both sides of the
\* 60-day edge, 90 days ago, in the future, with a date that does not parse,
\* without a date, and a null item
ItemPool ==
    { Episode(<<"Quarks">>, DateStr(StartDay), 1805000),
      Episode(<<"Edge">>, DateStr(StartDay - 59), 0),
      Episode(<<"Old">>, DateStr(StartDay - 60), 61000),
      Episode(<<"Ancient">>, DateStr(StartDay - 90), 61000),
      Episode(<<"Soon">>, DateStr(StartDay + 3), 61000),
      Episode(<<"Month">>, <<"2", "0", "2", "5", "-", "0", "3">>, 61000),
      Episode(<<"Feb30">>, <<"2", "0", "2", "5", "-", "0", "2", "-", "3", "0">>, 61000),
      Episode(<<"Undated">>, << >>, 61000),
      None }

SearchResponses ==
    {[has_episodes |-> FALSE, items |-> << >>]}
        \cup {[has_episodes |-> TRUE, items |-> i] : i \in SeqsUpTo(ItemPool, MaxItems)}

(***************************************************************************)
(* POST /spotify-scout/run: api.py run_spotify_scout                       *)
(***************************************************************************)
\* scout = SpotifyScout()
run_spotify_scout ==
    /\ Idle
    /\ UNCHANGED earlier
    /\ \E i \in SetOrUnset, s \in SetOrUnset, k \in EnvValues, a \in SetOrUnset,
          p \in SetOrUnset :
           Fresh("run_spotify_scout", "check_config", SpotifyScout_init(i, s, k, a, p), None)

\* the two configuration checks of the endpoint
run_spotify_scout_check ==
    /\ driver = "run_spotify_scout" /\ pc = "check_config"
    /\ LET s == check_spotify_config(cfg, error_message)
           v == SpotifyScout_check_vapi_config(cfg, s.error_message)
       IN  IF ~s.ok
           THEN /\ error_message' = s.error_message
                /\ pc' = "done"
                /\ response' = JSONResponse(500,
                       [success |-> FALSE,
                        error |-> <<"Spotify not configured. Check environment variables.">>])
                /\ UNCHANGED checked
           ELSE IF ~v.ok
           THEN /\ error_message' = v.error_message
                /\ pc' = "done"
                /\ response' = JSONResponse(500,
                       [success |-> FALSE,
                        error |-> <<"Vapi not configured. Check environment variables.">>])
                /\ checked' = checked \cup {"source"}
           ELSE /\ error_message' = v.error_message
                /\ pc' = "fetch_physics_episodes"
                /\ checked' = checked \cup {"source", "vapi"}
                /\ UNCHANGED response
    /\ UNCHANGED <<driver, now, ticks, status, results, cfg, subscribers, gc, worksheet,
                   spotify_api, target_url, all_flights, search_idx, sub_idx,
                   prompt_text, todays, ret, calls, source_calls, trace,
                   fetched,
                   todays_birthdays, raised,
                   call_results, earlier>>

\* "if not episodes": the endpoint's answer to an empty fetch
no_episodes_found ==
    JSONResponse(200, [success |-> TRUE,
                       message |-> <<"No physics episodes found in the past 60 days">>,
                       episodes |-> << >>])

\* fetch_physics_episodes: self.status = "fetching"
SpotifyScout_fetch_begin ==
    /\ driver = "run_spotify_scout" /\ pc = "fetch_physics_episodes"
    /\ status' = "fetching"
    /\ trace' = Append(trace, "fetch_physics_episodes")
    /\ pc' = "fetching"
    /\ UNCHANGED <<driver, now, ticks, error_message, results, cfg, subscribers, gc,
                   worksheet, spotify_api, target_url, all_flights, search_idx, sub_idx,
                   prompt_text, todays, ret, response, calls, source_calls, checked,
                   fetched,
                   todays_birthdays, raised,
                   call_results, earlier>>

\* the rest of fetch_physics_episodes, and the endpoint's "if not episodes"
SpotifyScout_fetch_end ==
    /\ driver = "run_spotify_scout" /\ pc = "fetching"
    /\ \E token_ok \in BOOLEAN, search \in {None} \cup {Some(r) : r \in SearchResponses} :
         LET r == fetch_physics_episodes(spotify_api, cfg, results, error_message, now,
                                         token_ok, search)
         IN  /\ status' = r.status
             /\ error_message' = r.error_message
             /\ results' = r.results
             /\ spotify_api' = r.spotify_api
             /\ fetched' = Some([at |-> now, asked |-> r.asked, status |-> r.status,
                                  answer |-> IF r.asked THEN search ELSE None,
                                  returned |-> r.ret,
                                  error_message |-> r.error_message,
                                  failed |-> r.status = "error" /\ r.requests > 0])
             /\ ret' = Some(r.ret)
             /\ source_calls' = source_calls + r.requests
             /\ IF r.ret = << >>
                THEN /\ pc' = "done"
                     /\ response' = no_episodes_found
                ELSE /\ pc' = "get_recent_episodes"
                     /\ UNCHANGED response
    /\ UNCHANGED <<driver, now, ticks, cfg, subscribers, gc, worksheet, target_url,
                   all_flights, search_idx, sub_idx, prompt_text, todays, calls,
                   checked, trace,
                   todays_birthdays, raised,
                   call_results, earlier>>

\* a handler that answers 500 but drops the exception text
internal_server_error_without_text(text) ==
    JSONResponse(500, [success |-> FALSE, error |-> <<"Internal server error: ">>])

\* the endpoints' "except Exception as e": the 500 response with the text
internal_server_error(text) ==
    JSONResponse(500, [success |-> FALSE,
                       error |-> <<"Internal server error: ">> \o text])

\* recent_episodes = scout.get_recent_episodes(): SpotifyScout defines no such
\* method, the AttributeError reaches the endpoint's except clause
run_spotify_scout_recent ==
    /\ driver = "run_spotify_scout" /\ pc = "get_recent_episodes"
    /\ pc' = "done"
    /\ raised' = Some(<<"'SpotifyScout' object has no attribute 'get_recent_episodes'">>)
    /\ response' = internal_server_error(raised'[1])
    /\ UNCHANGED <<driver, now, ticks, status, error_message, results, cfg, subscribers,
                   gc, worksheet, spotify_api, target_url, all_flights, search_idx,
                   sub_idx, prompt_text, todays, ret, calls, source_calls, checked,
                   trace, fetched, todays_birthdays,
                   call_results, earlier>>

(***************************************************************************)
(* scouts/spotifyScout.py main()                                           *)
(***************************************************************************)
\* scout = SpotifyScout()
SpotifyScout_main ==
    /\ Idle
    /\ UNCHANGED earlier
    /\ \E i \in SetOrUnset, s \in SetOrUnset, k \in EnvValues, a \in SetOrUnset,
          p \in SetOrUnset :
           Fresh("SpotifyScout_main", "report_results", SpotifyScout_init(i, s, k, a, p), None)

\* report_results: self.status = "reporting"
SpotifyScout_report_begin ==
    /\ driver = "SpotifyScout_main" /\ pc = "report_results"
    /\ status' = "reporting"
    /\ trace' = Append(trace, "report_results")
    /\ pc' = "reporting"
    /\ UNCHANGED <<driver, now, ticks, error_message, results, cfg, subscribers, gc,
                   worksheet, spotify_api, target_url, all_flights, search_idx, sub_idx,
                   prompt_text, todays, ret, response, calls, source_calls, checked,
                   fetched,
                   todays_birthdays, raised,
                   call_results, earlier>>

\* the rest of report_results.  VapiCaller(key, assistant_id, phone_number_id)
\* passes three arguments to a constructor that takes two: the TypeError is
\* caught by report_results' except clause before the loop over the subscribers.
SpotifyScout_report_end ==
    /\ driver = "SpotifyScout_main" /\ pc = "reporting"
    /\ LET c == SpotifyScout_check_vapi_config(cfg, error_message)
       IN  IF ~c.ok
           THEN /\ error_message' = c.error_message
                /\ UNCHANGED <<prompt_text, checked>>
           ELSE IF Len(subscribers) = 0
           THEN /\ error_message' = Some(<<"No subscribers to report to">>)
                /\ checked' = checked \cup {"vapi"}
                /\ UNCHANGED prompt_text
           ELSE /\ prompt_text' = format_episodes_for_prompt(results)
                /\ error_message' = Some(<<"Report error: ",
                       "VapiCaller.__init__() takes 3 positional arguments but 4 were given">>)
                /\ checked' = checked \cup {"vapi"}
    /\ status' = "error"
    /\ ret' = Some(FALSE)
    /\ pc' = "done"
    /\ UNCHANGED <<driver, now, ticks, results, cfg, subscribers, gc, worksheet,
                   spotify_api, target_url, all_flights, search_idx, sub_idx, todays,
                   response, calls, source_calls, trace,
                   fetched,
                   todays_birthdays, raised,
                   call_results, earlier>>

(***************************************************************************)
(* GoogleFlightsScout                                                      *)
(***************************************************************************)
departure_airport == <<"FLL">>
max_price == 500
\* self.results = all_flights[:20]
top_deals == 20
\* timedelta(days=30 + (i * 30)) and timedelta(days=7)
search_step_days == 30
return_after_days == 7

GoogleFlightsScout_init(search_api_key, private_api_key, assistant_id, phone_id) ==
    [search_api_key |-> search_api_key, subscriber_phone |-> <<"9548023797">>,
     vapi_private_api_key |-> private_api_key, vapi_assistant_id |-> assistant_id,
     vapi_phone_number_id |-> phone_id]

european_airports ==
    <<"LHR", "CDG", "AMS", "FRA", "MAD", "BCN", "MXP", "FCO", "ZRH", "VIE",
      "BRU", "CPH", "ARN", "OSL", "HEL", "DUB", "EDI", "MAN", "LGW", "STN",
      "ORY", "NCE", "TLS", "BOD", "BER", "MUC", "DUS", "CGN", "HAM", "STR",
      "MIL", "NAP", "BRI", "BGO", "TRD", "GOT", "MAL", "VLC", "BIL", "SVQ">>

\* the airports the model searches: the first NumAirports of the list
searched_airports == SubSeq(european_airports, 1, NumAirports)

\* _get_search_dates without the month offset: the same date every time
get_search_dates_repeated(today) ==
    [i \in 1..search_months |-> strftime(PlusDays(today, search_step_days))]

\* _get_search_dates
get_search_dates(today) ==
    [i \in 1..search_months |->
        strftime(PlusDays(today, search_step_days + (i - 1) * search_step_days))]

\* _get_return_date
get_return_date(outbound_date) ==
    strftime(PlusDays(strptime(outbound_date), return_after_days))

\* check_search_api_config: [ok, error_message]
check_search_api_config(c, em) ==
    IF ~Truthy(c.search_api_key)
    THEN [ok |-> FALSE,
          error_message |-> Some(<<"SEARCH_API_KEY environment variable not set">>)]
    ELSE [ok |-> TRUE, error_message |-> em]

\* check_vapi_config of GoogleFlightsScout: [ok, error_message]
GoogleFlightsScout_check_vapi_config(c, em) ==
    IF ~Truthy(c.vapi_private_api_key)
    THEN [ok |-> FALSE,
          error_message |-> Some(<<"PRIVATE_API_KEY environment variable not set">>)]
    ELSE IF ~Truthy(c.vapi_assistant_id)
    THEN [ok |-> FALSE,
          error_message |->
              Some(<<"FLIGHTS_REPORTER_ASSISTANT_ID environment variable not set">>)]
    ELSE IF ~Truthy(c.vapi_phone_number_id)
    THEN [ok |-> FALSE,
          error_message |->
              Some(<<"FLIGHTS_REPORTER_PHONE_NUMBER_ID environment variable not set">>)]
    ELSE [ok |-> TRUE, error_message |-> em]

\* option.get("price", 0)
option_price(option) == IF option.price.kind = "absent" THEN 0 ELSE option.price.value

\* "Only include flights under $500"
price_accepted(price) == price <= max_price

\* the loop of _search_flights_to_airport over data["flight_options"]
RECURSIVE flight_options(_, _, _)
flight_options(options, arrival_airport, outbound_date) ==
    IF Len(options) = 0 THEN << >>
    ELSE LET option == options[1]
             rest == flight_options(Tail(options), arrival_airport, outbound_date)
         IN  IF price_accepted(option_price(option))
             THEN <<[departure_airport |-> departure_airport,
                     arrival_airport |-> <<arrival_airport>>,
                     outbound_date |-> outbound_date,
                     return_date |-> get_return_date(outbound_date),
                     price |-> option_price(option),
                     airline |-> IF option.book_with = None THEN <<"Unknown">>
                                 ELSE option.book_with[1]]>> \o rest
             ELSE rest

\* whether the try block of _search_flights_to_airport raises: the request or
\* the decoding of its answer fails, or a price is no number
search_raises(data) ==
    \/ data = None
    \/ /\ data[1].has_flight_options
       /\ \E i \in 1..Len(data[1].flight_options) :
              data[1].flight_options[i].price.kind = "other"

\* _search_flights_to_airport.  data is None when the request or the decoding
\* of its answer raises; a price that is no number makes the comparison raise.
\* Every exception is caught and turned into an empty list.
search_flights_to_airport(arrival_airport, outbound_date, data) ==
    IF search_raises(data) THEN << >>
    ELSE IF ~data[1].has_flight_options THEN << >>
    ELSE flight_options(data[1].flight_options, arrival_airport, outbound_date)

\* all_flights left in the order the searches returned them
left_unsorted(flights) == flights

\* list.sort(key=lambda x: x.get("price", 0)): stable, ascending
RECURSIVE insert_by_price(_, _)
insert_by_price(sorted, f) ==
    IF Len(sorted) = 0 THEN <<f>>
    ELSE IF sorted[Len(sorted)].price <= f.price THEN Append(sorted, f)
    ELSE Append(insert_by_price(SubSeq(sorted, 1, Len(sorted) - 1), f),
                sorted[Len(sorted)])

RECURSIVE sort_by_price(_)
sort_by_price(flights) ==
    IF Len(flights) = 0 THEN << >>
    ELSE insert_by_price(sort_by_price(SubSeq(flights, 1, Len(flights) - 1)),
                         flights[Len(flights)])

\* all_flights[:20]
cheapest(flights) ==
    SubSeq(flights, 1, IF Len(flights) < top_deals THEN Len(flights) ELSE top_deals)

\* format_flights_for_prompt
format_flights_for_prompt(flights) ==
    LET none_found == <<"No flight deals found under $">> \o str(max_price)
                          \o <<" to Europe from ">> \o departure_airport
        kept == SelectSeq(flights, LAMBDA f :
                    /\ f.departure_airport /= << >>
                    /\ f.arrival_airport /= << >>
                    /\ f.outbound_date /= << >>)
        text(f) == f.departure_airport \o <<" to ">> \o f.arrival_airport \o <<" ($">>
                       \o str(f.price) \o <<") - ">> \o f.airline \o <<" - Out: ">>
                       \o f.outbound_date \o <<", Return: ">> \o f.return_date
        formatted == [i \in 1..Len(kept) |-> text(kept[i])]
    IN  IF Len(flights) = 0 THEN none_found
        ELSE IF Len(formatted) > 0
        THEN <<"Found ">> \o str(Len(formatted)) \o <<" flight deals under $">>
                 \o str(max_price) \o <<":\n">> \o join(<<"\n">>, formatted)
        ELSE none_found

(***************************************************************************)
(* The flight search service's answers                                     *)
(***************************************************************************)
Priced(p, a) == [price |-> [kind |-> "number", value |-> p], book_with |-> Some(<<a>>)]

\* prices on both sides of the limit, out of order, one option without a price
ManyOptions ==
    <<Priced(450, "Iberia"), Priced(501, "KLM"), Priced(100, "TAP"),
      Priced(500, "SAS"), Priced(320, "Delta"), Priced(700, "Swiss"),
      [price |-> [kind |-> "absent", value |-> 0], book_with |-> None],
      Priced(499, "BA"), Priced(250, "Norse"), Priced(199, "Level"),
      Priced(380, "Condor"), Priced(90, "PLAY"), Priced(410, "Aer Lingus")>>

FlightData ==
    { None,
      Some([has_flight_options |-> FALSE, flight_options |-> << >>]),
      Some([has_flight_options |-> TRUE,
            flight_options |-> <<Priced(450, "Iberia"),
                                 [price |-> [kind |-> "other", value |-> 0],
                                  book_with |-> None]>>]),
      Some([has_flight_options |-> TRUE, flight_options |-> ManyOptions]) }

(***************************************************************************)
(* scouts/googleFlightsScout.py main()                                     *)
(***************************************************************************)
\* scout = GoogleFlightsScout()
GoogleFlightsScout_main ==
    /\ Idle
    /\ UNCHANGED earlier
    /\ \E s \in EnvValues, k \in SetOrUnset, a \in SetOrUnset, p \in SetOrUnset :
           Fresh("GoogleFlightsScout_main", "fetch_flight_deals",
                 GoogleFlightsScout_init(s, k, a, p), None)

\* fetch_flight_deals: self.status = "fetching"
GoogleFlightsScout_fetch_begin ==
    /\ driver = "GoogleFlightsScout_main" /\ pc = "fetch_flight_deals"
    /\ status' = "fetching"
    /\ trace' = Append(trace, "fetch_flight_deals")
    /\ pc' = "fetching"
    /\ UNCHANGED <<driver, now, ticks, error_message, results, cfg, subscribers, gc,
                   worksheet, spotify_api, target_url, all_flights, search_idx, sub_idx,
                   prompt_text, todays, ret, response, calls, source_calls, checked,
                   fetched,
                   todays_birthdays, raised,
                   call_results, earlier>>

\* fetch_flight_deals up to its loops: the configuration check, the dates
GoogleFlightsScout_fetch_check ==
    /\ driver = "GoogleFlightsScout_main" /\ pc = "fetching"
    /\ LET c == check_search_api_config(cfg, error_message)
       IN  IF ~c.ok
           THEN /\ error_message' = c.error_message
                /\ status' = "error"
                /\ ret' = Some(<< >>)
                /\ pc' = "report_results"
                /\ fetched' = Some([at |-> now, failed |-> FALSE, status |-> "error",
                                     returned |-> << >>,
                                     error_message |-> c.error_message,
                                     searched |-> << >>])
                /\ UNCHANGED <<search_idx, todays, checked>>
           ELSE /\ todays' = get_search_dates(now)
                /\ search_idx' = 1
                /\ pc' = "searching"
                /\ checked' = checked \cup {"source"}
                /\ fetched' = Some([at |-> now, failed |-> FALSE, status |-> status,
                                     returned |-> << >>,
                                     error_message |-> error_message,
                                     searched |-> << >>])
                /\ UNCHANGED <<error_message, status, ret>>
    /\ UNCHANGED <<driver, now, ticks, results, cfg, subscribers, gc, worksheet,
                   spotify_api, target_url, all_flights, sub_idx, prompt_text,
                   response, calls, source_calls, trace, todays_birthdays, raised,
                   call_results, earlier>>

\* one pass of the inner loop: one search, its flights appended to all_flights
GoogleFlightsScout_search ==
    /\ driver = "GoogleFlightsScout_main" /\ pc = "searching"
    /\ search_idx <= Len(searched_airports) * Len(todays)
    /\ \E data \in FlightData :
         LET airport == searched_airports[((search_idx - 1) \div Len(todays)) + 1]
             date == todays[((search_idx - 1) % Len(todays)) + 1]
         IN  /\ all_flights' = all_flights
                                \o search_flights_to_airport(airport, date, data)
             /\ fetched' = Some([fetched[1] EXCEPT
                                 !.failed = @ \/ search_raises(data),
                                 !.searched = Append(@, <<airport, date>>)])
    /\ search_idx' = search_idx + 1
    /\ source_calls' = source_calls + 1
    /\ UNCHANGED <<driver, pc, now, ticks, status, error_message, results, cfg,
                   subscribers, gc, worksheet, spotify_api, target_url, sub_idx,
                   prompt_text, todays, ret, response, calls, checked, trace,
                   todays_birthdays, raised,
                   call_results, earlier>>

\* after the loops: sort, keep the cheapest, self.status = "completed"
GoogleFlightsScout_fetch_end ==
    /\ driver = "GoogleFlightsScout_main" /\ pc = "searching"
    /\ search_idx > Len(searched_airports) * Len(todays)
    /\ results' = cheapest(sort_by_price(all_flights))
    /\ status' = "completed"
    /\ ret' = Some(results')
    /\ pc' = "report_results"
    /\ fetched' = Some([fetched[1] EXCEPT !.status = "completed",
                                          !.returned = results'])
    /\ UNCHANGED <<driver, now, ticks, error_message, cfg, subscribers, gc, worksheet,
                   spotify_api, target_url, all_flights, search_idx, sub_idx,
                   prompt_text, todays, response, calls, source_calls, checked, trace,
                   todays_birthdays, raised,
                   call_results, earlier>>

\* main() goes on to scout.report_results() whatever the fetch returned:
\* report_results sets self.status = "reporting"
GoogleFlightsScout_report_begin ==
    /\ driver = "GoogleFlightsScout_main" /\ pc = "report_results"
    /\ status' = "reporting"
    /\ trace' = Append(trace, "report_results")
    /\ pc' = "reporting"
    /\ UNCHANGED <<driver, now, ticks, error_message, results, cfg, subscribers, gc,
                   worksheet, spotify_api, target_url, all_flights, search_idx, sub_idx,
                   prompt_text, todays, ret, response, calls, source_calls, checked,
                   fetched,
                   todays_birthdays, raised,
                   call_results, earlier>>

\* the rest of report_results.  VapiCaller(key, assistant_id, phone_number_id)
\* passes three arguments to a constructor that takes two: the TypeError is
\* caught by report_results' except clause before the call is made.
GoogleFlightsScout_report_end ==
    /\ driver = "GoogleFlightsScout_main" /\ pc = "reporting"
    /\ LET c == GoogleFlightsScout_check_vapi_config(cfg, error_message)
       IN  IF ~c.ok
           THEN /\ error_message' = c.error_message
                /\ UNCHANGED <<prompt_text, checked>>
           ELSE IF cfg.subscriber_phone = << >>
           THEN /\ error_message' = Some(<<"No subscriber phone number to report to">>)
                /\ checked' = checked \cup {"vapi"}
                /\ UNCHANGED prompt_text
           ELSE /\ prompt_text' = format_flights_for_prompt(results)
                /\ error_message' = Some(<<"Report error: ",
                       "VapiCaller.__init__() takes 3 positional arguments but 4 were given">>)
                /\ checked' = checked \cup {"vapi"}
    /\ status' = "error"
    /\ ret' = Some(FALSE)
    /\ pc' = "done"
    /\ UNCHANGED <<driver, now, ticks, results, cfg, subscribers, gc, worksheet,
                   spotify_api, target_url, all_flights, search_idx, sub_idx, todays,
                   response, calls, source_calls, trace,
                   fetched,
                   todays_birthdays, raised,
                   call_results, earlier>>

(***************************************************************************)
(* The base Scout: models/scout.py                                         *)
(***************************************************************************)
TargetUrls == {None, Some(<< >>), Some(<<"https://example.org/feed">>)}

\* scout = Scout(name=..., target_url=...)
Scout_new ==
    /\ Idle
    /\ UNCHANGED earlier
    /\ \E u \in TargetUrls :
         Fresh("Scout_run", "run", [name |-> <<"scout">>], u)

\* run: self.status = "running"
Scout_run_begin ==
    /\ driver = "Scout_run" /\ pc = "run"
    /\ status' = "running"
    /\ pc' = "fetch"
    /\ UNCHANGED <<driver, now, ticks, error_message, results, cfg, subscribers, gc,
                   worksheet, spotify_api, target_url, all_flights, search_idx, sub_idx,
                   prompt_text, todays, ret, response, calls, source_calls, checked,
                   trace,
                   fetched,
                   todays_birthdays, raised,
                   call_results, earlier>>

\* fetch: self.status = "fetching"
Scout_fetch_begin ==
    /\ driver = "Scout_run" /\ pc = "fetch"
    /\ status' = "fetching"
    /\ trace' = Append(trace, "fetch")
    /\ pc' = "fetching"
    /\ UNCHANGED <<driver, now, ticks, error_message, results, cfg, subscribers, gc,
                   worksheet, spotify_api, target_url, all_flights, search_idx, sub_idx,
                   prompt_text, todays, ret, response, calls, source_calls, checked,
                   fetched,
                   todays_birthdays, raised,
                   call_results, earlier>>

\* the rest of fetch, and run's "if not self.fetch(): return False"
Scout_fetch_end ==
    /\ driver = "Scout_run" /\ pc = "fetching"
    /\ IF Truthy(target_url)
       THEN /\ results' = <<[source |-> target_url[1], data |-> <<"fetched_data">>,
                             processed_at |-> None]>>
            /\ pc' = "process"
            /\ UNCHANGED <<status, error_message, ret>>
       ELSE /\ error_message' = Some(<<"No target URL specified">>)
            /\ status' = "error"
            /\ ret' = Some(FALSE)
            /\ pc' = "done"
            /\ UNCHANGED results
    /\ UNCHANGED <<driver, now, ticks, cfg, subscribers, gc, worksheet, spotify_api,
                   target_url, all_flights, search_idx, sub_idx, prompt_text, todays,
                   response, calls, source_calls, checked, trace,
                   fetched,
                   todays_birthdays, raised,
                   call_results, earlier>>

\* process: self.status = "processing"
Scout_process_begin ==
    /\ driver = "Scout_run" /\ pc = "process"
    /\ status' = "processing"
    /\ trace' = Append(trace, "process")
    /\ pc' = "processing"
    /\ UNCHANGED <<driver, now, ticks, error_message, results, cfg, subscribers, gc,
                   worksheet, spotify_api, target_url, all_flights, search_idx, sub_idx,
                   prompt_text, todays, ret, response, calls, source_calls, checked,
                   fetched,
                   todays_birthdays, raised,
                   call_results, earlier>>

\* process leaving no processed result behind
Scout_process_end_keeps_nothing ==
    /\ driver = "Scout_run" /\ pc = "processing"
    /\ IF Len(results) = 0
       THEN /\ error_message' = Some(<<"No data to process">>)
            /\ status' = "error"
            /\ ret' = Some(FALSE)
            /\ pc' = "done"
            /\ UNCHANGED results
       ELSE /\ results' = << >>
            /\ status' = "processed"
            /\ pc' = "check_if_results"
            /\ UNCHANGED <<error_message, ret>>
    /\ UNCHANGED <<driver, now, ticks, cfg, subscribers, gc, worksheet, spotify_api,
                   target_url, all_flights, search_idx, sub_idx, prompt_text, todays,
                   response, calls, source_calls, checked, trace,
                   fetched,
                   todays_birthdays, raised,
                   call_results, earlier>>

\* the rest of process, and run's "if not self.process(): return False"
Scout_process_end ==
    /\ driver = "Scout_run" /\ pc = "processing"
    /\ IF Len(results) = 0
       THEN /\ error_message' = Some(<<"No data to process">>)
            /\ status' = "error"
            /\ ret' = Some(FALSE)
            /\ pc' = "done"
            /\ UNCHANGED results
       ELSE /\ results' = [i \in 1..Len(results) |->
                              [results[i] EXCEPT !.processed_at = Some(now)]]
            /\ status' = "processed"
            /\ pc' = "check_if_results"
            /\ UNCHANGED <<error_message, ret>>
    /\ UNCHANGED <<driver, now, ticks, cfg, subscribers, gc, worksheet, spotify_api,
                   target_url, all_flights, search_idx, sub_idx, prompt_text, todays,
                   response, calls, source_calls, checked, trace,
                   fetched,
                   todays_birthdays, raised,
                   call_results, earlier>>

\* run's "if not self.check_if_results()", then send_results:
\* self.status = "sending"
Scout_send_begin ==
    /\ driver = "Scout_run" /\ pc = "check_if_results"
    /\ IF Len(results) = 0
       THEN /\ status' = "completed"
            /\ error_message' = Some(<<"No results found">>)
            /\ ret' = Some(TRUE)
            /\ pc' = "done"
            /\ UNCHANGED trace
       ELSE /\ status' = "sending"
            /\ trace' = Append(trace, "send_results")
            /\ pc' = "sending"
            /\ UNCHANGED <<error_message, ret>>
    /\ UNCHANGED <<driver, now, ticks, results, cfg, subscribers, gc, worksheet,
                   spotify_api, target_url, all_flights, search_idx, sub_idx,
                   prompt_text, todays, response, calls, source_calls, checked,
                   fetched,
                   todays_birthdays, raised,
                   call_results, earlier>>

\* the rest of send_results
Scout_send_end ==
    /\ driver = "Scout_run" /\ pc = "sending"
    /\ IF Len(results) = 0
       THEN /\ error_message' = Some(<<"No results to send">>)
            /\ status' = "error"
            /\ ret' = Some(FALSE)
            /\ pc' = "done"
       ELSE /\ status' = "completed"
            /\ pc' = "sent"
            /\ UNCHANGED <<error_message, ret>>
    /\ UNCHANGED <<driver, now, ticks, results, cfg, subscribers, gc, worksheet,
                   spotify_api, target_url, all_flights, search_idx, sub_idx,
                   prompt_text, todays, response, calls, source_calls, checked, trace,
                   fetched,
                   todays_birthdays, raised,
                   call_results, earlier>>

\* run ending with a status of its own
Scout_run_end_finished ==
    /\ driver = "Scout_run" /\ pc = "sent"
    /\ status' = "finished"
    /\ ret' = Some(TRUE)
    /\ pc' = "done"
    /\ UNCHANGED <<driver, now, ticks, error_message, results, cfg, subscribers, gc,
                   worksheet, spotify_api, target_url, all_flights, search_idx, sub_idx,
                   prompt_text, todays, response, calls, source_calls, checked, trace,
                   fetched, todays_birthdays, raised,
                   call_results, earlier>>

\* run: self.status = "completed"; return True
Scout_run_end ==
    /\ driver = "Scout_run" /\ pc = "sent"
    /\ status' = "completed"
    /\ ret' = Some(TRUE)
    /\ pc' = "done"
    /\ UNCHANGED <<driver, now, ticks, error_message, results, cfg, subscribers, gc,
                   worksheet, spotify_api, target_url, all_flights, search_idx, sub_idx,
                   prompt_text, todays, response, calls, source_calls, checked, trace,
                   fetched,
                   todays_birthdays, raised,
                   call_results, earlier>>

(***************************************************************************)
(* The end of a request or of a process: the instance is dropped           *)
(***************************************************************************)
Finish ==
    /\ pc = "done"
    /\ UNCHANGED earlier
    /\ Fresh("none", "idle", [name |-> << >>], None)

(***************************************************************************)
(* The clock                                                               *)
(***************************************************************************)
Tick ==
    /\ ticks < MaxTicks
    /\ ticks' = ticks + 1
    /\ now' = IF now.tod = 0 THEN [day |-> now.day, tod |-> 1]
              ELSE [day |-> now.day + 1, tod |-> 0]
    /\ UNCHANGED <<driver, pc, status, error_message, results, cfg, subscribers, gc,
                   worksheet, spotify_api, target_url, all_flights, search_idx, sub_idx,
                   prompt_text, todays, ret, response, calls, source_calls, checked,
                   trace,
                   fetched,
                   todays_birthdays, raised,
                   call_results, earlier>>

(***************************************************************************)
(* Specification                                                           *)
(***************************************************************************)
InitExceptDriverAndResults ==
    /\ pc = "idle"
    /\ now \in {[day |-> StartDay, tod |-> 1], [day |-> StartDay + 1, tod |-> 0]}
    /\ ticks = 0
    /\ status = "idle"
    /\ error_message = None
    /\ cfg = [name |-> << >>]
    /\ subscribers = << >>
    /\ gc = None
    /\ worksheet = None
    /\ spotify_api = None
    /\ target_url = None
    /\ all_flights = << >>
    /\ search_idx = 0
    /\ sub_idx = 0
    /\ prompt_text = << >>
    /\ todays = << >>
    /\ ret = None
    /\ response = None
    /\ calls = << >>
    /\ source_calls = 0
    /\ checked = {}
    /\ trace = << >>
    /\ fetched = None
    /\ todays_birthdays = << >>
    /\ raised = None
    /\ call_results = << >>
    /\ earlier = << >>

Init ==
    /\ driver = "none"
    /\ results = << >>
    /\ InitExceptDriverAndResults

Next ==
    \/ Tick
    \/ run_birthday_scout
    \/ run_birthday_scout_check
    \/ BirthdayScout_fetch_begin
    \/ BirthdayScout_fetch_end
    \/ run_birthday_scout_filter
    \/ BirthdayScout_report_begin
    \/ BirthdayScout_report_prepare
    \/ BirthdayScout_report_call
    \/ BirthdayScout_report_end
    \/ run_spotify_scout
    \/ run_spotify_scout_check
    \/ SpotifyScout_fetch_begin
    \/ SpotifyScout_fetch_end
    \/ run_spotify_scout_recent
    \/ SpotifyScout_main
    \/ SpotifyScout_report_begin
    \/ SpotifyScout_report_end
    \/ GoogleFlightsScout_main
    \/ GoogleFlightsScout_fetch_begin
    \/ GoogleFlightsScout_fetch_check
    \/ GoogleFlightsScout_search
    \/ GoogleFlightsScout_fetch_end
    \/ GoogleFlightsScout_report_begin
    \/ GoogleFlightsScout_report_end
    \/ Scout_new
    \/ Scout_run_begin
    \/ Scout_fetch_begin
    \/ Scout_fetch_end
    \/ Scout_process_begin
    \/ Scout_process_end
    \/ Scout_send_begin
    \/ Scout_send_end
    \/ Scout_run_end
    \/ Finish

Spec == Init /\ [][Next]_vars

(***************************************************************************)
(* Specification of the formatters alone: a list is drawn, then formatted  *)
(***************************************************************************)
BirthdayRecords ==
    { [name |-> <<"A", "l", "i", "c", "e">>, year |-> Some(<<"1", "9", "9", "0">>),
       month |-> Some(3), day |-> Some(15)],
      [name |-> <<"B", "o", "b">>, year |-> None, month |-> Some(12), day |-> Some(1)],
      [name |-> << >>, year |-> None, month |-> Some(3), day |-> Some(15)],
      [name |-> <<"C", "a", "l">>, year |-> None, month |-> None, day |-> Some(15)] }

EpisodeRecords ==
    { [name |-> <<"Quarks">>, release_date |-> DateStr(StartDay), duration_ms |-> 1805000],
      [name |-> <<"Edge">>, release_date |-> DateStr(StartDay - 59), duration_ms |-> 0],
      [name |-> << >>, release_date |-> DateStr(StartDay), duration_ms |-> 61000],
      [name |-> <<"Undated">>, release_date |-> << >>, duration_ms |-> 61000] }

FlightRecords ==
    { [departure_airport |-> departure_airport, arrival_airport |-> <<"LHR">>,
       outbound_date |-> DateStr(StartDay + 30),
       return_date |-> get_return_date(DateStr(StartDay + 30)),
       price |-> 450, airline |-> <<"Iberia">>],
      [departure_airport |-> departure_airport, arrival_airport |-> <<"CDG">>,
       outbound_date |-> DateStr(StartDay + 60),
       return_date |-> get_return_date(DateStr(StartDay + 60)),
       price |-> 0, airline |-> <<"Unknown">>],
      [departure_airport |-> departure_airport, arrival_airport |-> << >>,
       outbound_date |-> DateStr(StartDay + 60),
       return_date |-> get_return_date(DateStr(StartDay + 60)),
       price |-> 120, airline |-> <<"TAP">>],
      [departure_airport |-> departure_airport, arrival_airport |-> <<"AMS">>,
       outbound_date |-> << >>, return_date |-> << >>,
       price |-> 500, airline |-> <<"KLM">>] }

FormatInit ==
    /\ InitExceptDriverAndResults
    /\ \/ driver = "format_birthdays_for_prompt"
          /\ results \in SeqsUpTo(BirthdayRecords, MaxItems)
       \/ driver = "format_episodes_for_prompt"
          /\ results \in SeqsUpTo(EpisodeRecords, MaxItems)
       \/ driver = "format_flights_for_prompt"
          /\ results \in SeqsUpTo(FlightRecords, MaxItems)

FormatUnchanged ==
    UNCHANGED <<call_results, earlier, raised, todays_birthdays, driver, now, ticks, status, error_message, results, cfg, subscribers,
                gc, worksheet, spotify_api, target_url, all_flights, search_idx,
                sub_idx, todays, ret, response, calls, source_calls, checked, trace,
                fetched>>

FormatBirthdays ==
    /\ driver = "format_birthdays_for_prompt" /\ pc = "idle"
    /\ prompt_text' = format_birthdays_for_prompt(results)
    /\ pc' = "done"
    /\ FormatUnchanged

FormatEpisodes ==
    /\ driver = "format_episodes_for_prompt" /\ pc = "idle"
    /\ prompt_text' = format_episodes_for_prompt(results)
    /\ pc' = "done"
    /\ FormatUnchanged

FormatFlights ==
    /\ driver = "format_flights_for_prompt" /\ pc = "idle"
    /\ prompt_text' = format_flights_for_prompt(results)
    /\ pc' = "done"
    /\ FormatUnchanged

FormatNext == FormatBirthdays \/ FormatEpisodes \/ FormatFlights

SpecFormat == FormatInit /\ [][FormatNext]_vars

(***************************************************************************)
(* Specification of make_call_with_variables alone: the arguments are      *)
(* drawn, then the call is made                                            *)
(***************************************************************************)
PhoneNumbers == {<<"9549559235">>, <<"+", "1", "9549559235">>, << >>}

VariableValues ==
    { [userFirstName |-> <<"Daniela">>, birthdays |-> <<"Alice (3/15)">>],
      [userFirstName |-> << >>, birthdays |-> <<"No birthdays today">>],
      [userFirstName |-> <<"Daniela">>, birthdays |-> <<NotJSON>>] }

CallNames == {None, Some(<< >>), Some(<<"Birthday Alert">>)}

CallInit ==
    /\ InitExceptDriverAndResults
    /\ driver = "make_call_with_variables"
    /\ results \in {[phone_number |-> p, variable_values |-> v, call_name |-> n] :
                       p \in PhoneNumbers, v \in VariableValues, n \in CallNames}

\* vapi_caller.make_call_with_variables(phone_number, variable_values, call_name)
MakeCall ==
    /\ driver = "make_call_with_variables" /\ pc = "idle"
    /\ \E outcome \in CallOutcomes :
         LET r == make_call_with_variables(<<"assistant">>, results.phone_number,
                      results.variable_values, results.call_name, outcome)
         IN  /\ calls' = IF r.sent THEN Append(calls, r.payload) ELSE calls
             /\ ret' = r.result
             /\ raised' = r.exception
    /\ pc' = "done"
    /\ UNCHANGED <<driver, now, ticks, status, error_message, results, cfg, subscribers,
                   gc, worksheet, spotify_api, target_url, all_flights, search_idx,
                   sub_idx, prompt_text, todays, response, source_calls, checked, trace,
                   fetched, todays_birthdays,
                   call_results, earlier>>

CallNext == MakeCall

SpecCall == CallInit /\ [][CallNext]_vars

(***************************************************************************)
(* Specification of one BirthdayScout instance whose fetch_birthdays is    *)
(* called several times                                                    *)
(***************************************************************************)
\* calls of fetch_birthdays on the instance
MaxFetches == 2

\* scout = BirthdayScout(service_account_file, spreadsheet_id)
BirthdayScout_new ==
    /\ Idle
    /\ driver = "none"
    /\ UNCHANGED earlier
    /\ \E k \in SetOrUnset, a \in SetOrUnset :
           Fresh("BirthdayScout", "ready", BirthdayScout_init(k, a), None)

\* what get_all_values may return here: no rows, or a first row and at most
\* one more
ShortSheets == {v \in Sheets : Len(v) <= 2}

\* scout.fetch_birthdays(), the whole method; service is what the
\* spreadsheet service would answer to an initialization during this call
BirthdayScout_fetch_birthdays ==
    /\ driver = "BirthdayScout" /\ pc = "ready"
    /\ Len(trace) < MaxFetches
    /\ \E init \in InitOutcomes, values \in {None} \cup {Some(v) : v \in ShortSheets} :
         LET r == fetch_birthdays(gc, worksheet, results, error_message, init, values)
         IN  /\ status' = r.status
             /\ error_message' = r.error_message
             /\ results' = r.results
             /\ gc' = r.gc
             /\ worksheet' = r.worksheet
             /\ ret' = Some(r.ret)
             /\ source_calls' = source_calls + r.requests
             /\ fetched' = Some([at |-> now, service |-> init, status |-> r.status,
                                  returned |-> r.ret, requests |-> r.requests])
    /\ trace' = Append(trace, "fetch_birthdays")
    /\ UNCHANGED <<driver, pc, now, ticks, cfg, subscribers, spotify_api, target_url,
                   all_flights, search_idx, sub_idx, prompt_text, todays, response,
                   calls, checked, todays_birthdays, raised, call_results, earlier>>

RefetchNext == BirthdayScout_new \/ BirthdayScout_fetch_birthdays

SpecRefetch == Init /\ [][RefetchNext]_vars

(***************************************************************************)
(* Specification of one SpotifyAPI instance: spotify.py.  get_access_token *)
(* and search are called in any order                                      *)
(***************************************************************************)
\* calls of get_access_token and search on the instance
MaxOps == 3

\* what the token request may do: raise (None), or answer with a token; the
\* accounts service may issue a different token every time
TokenResponses == {None, Some("token-1"), Some("token-2")}

\* what the search request may do: raise (None), or answer
SearchAnswers == {None, Some([has_episodes |-> FALSE, items |-> << >>])}

\* get_access_token that asks for a token every time
get_access_token_uncached(api, token_response) ==
    IF token_response = None
    THEN [api |-> api, token |-> None, requests |-> 1, raised |-> TRUE]
    ELSE [api |-> [access_token |-> token_response], token |-> token_response,
          requests |-> 1, raised |-> FALSE]

\* get_access_token: the instance afterwards, the token returned, the token
\* requests sent and whether the method raised
SpotifyAPI_get_access_token(api, token_response) ==
    IF api.access_token /= None
    THEN [api |-> api, token |-> api.access_token, requests |-> 0, raised |-> FALSE]
    ELSE IF token_response = None
    THEN [api |-> api, token |-> None, requests |-> 1, raised |-> TRUE]
    ELSE [api |-> [access_token |-> token_response], token |-> token_response,
          requests |-> 1, raised |-> FALSE]

\* search: the same, the token being the one of the Authorization header;
\* the search request is sent only when get_access_token returned
SpotifyAPI_search(api, token_response, answer) ==
    LET t == SpotifyAPI_get_access_token(api, token_response)
    IN  [api |-> t.api, token |-> t.token, requests |-> t.requests,
         raised |-> t.raised \/ answer = None,
         searched |-> ~t.raised]

TokenInit ==
    /\ InitExceptDriverAndResults
    /\ driver = "SpotifyAPI"
    /\ results = << >>

\* spotify = SpotifyAPI(client_id, client_secret)
SpotifyAPI_new ==
    /\ driver = "SpotifyAPI" /\ pc = "idle"
    /\ spotify_api' = Some([access_token |-> None])
    /\ pc' = "ready"
    /\ UNCHANGED <<driver, now, ticks, status, error_message, results, cfg, subscribers,
                   gc, worksheet, target_url, all_flights, search_idx, sub_idx,
                   prompt_text, todays, ret, response, calls, source_calls, checked,
                   trace, fetched, todays_birthdays, raised, call_results, earlier>>

\* spotify.get_access_token()
SpotifyAPI_token ==
    /\ driver = "SpotifyAPI" /\ pc = "ready"
    /\ Len(trace) < MaxOps
    /\ \E token_response \in TokenResponses :
         LET r == SpotifyAPI_get_access_token(spotify_api[1], token_response)
         IN  /\ spotify_api' = Some(r.api)
             /\ source_calls' = source_calls + r.requests
             /\ ret' = r.token
             /\ raised' = IF r.raised THEN Some(<<"token request">>) ELSE None
             /\ fetched' = Some([token |-> r.token, token_raised |-> r.raised,
                                  searched |-> FALSE])
    /\ trace' = Append(trace, "get_access_token")
    /\ UNCHANGED <<driver, pc, now, ticks, status, error_message, results, cfg,
                   subscribers, gc, worksheet, target_url, all_flights, search_idx,
                   sub_idx, prompt_text, todays, response, calls, checked,
                   todays_birthdays, call_results, earlier>>

\* spotify.search("physics", ...)
SpotifyAPI_search_call ==
    /\ driver = "SpotifyAPI" /\ pc = "ready"
    /\ Len(trace) < MaxOps
    /\ \E token_response \in TokenResponses, answer \in SearchAnswers :
         LET r == SpotifyAPI_search(spotify_api[1], token_response, answer)
         IN  /\ spotify_api' = Some(r.api)
             /\ source_calls' = source_calls + r.requests
             /\ ret' = IF r.raised THEN None ELSE answer
             /\ raised' = IF ~r.searched THEN Some(<<"token request">>)
                          ELSE IF r.raised THEN Some(<<"search request">>) ELSE None
             /\ fetched' = Some([token |-> r.token, token_raised |-> ~r.searched,
                                  searched |-> r.searched])
    /\ trace' = Append(trace, "search")
    /\ UNCHANGED <<driver, pc, now, ticks, status, error_message, results, cfg,
                   subscribers, gc, worksheet, target_url, all_flights, search_idx,
                   sub_idx, prompt_text, todays, response, calls, checked,
                   todays_birthdays, call_results, earlier>>

TokenNext == SpotifyAPI_new \/ SpotifyAPI_token \/ SpotifyAPI_search_call

SpecToken == TokenInit /\ [][TokenNext]_vars

(***************************************************************************)
(* Specification of one server process serving several requests, one after *)
(* the other: the endpoints are "async def" without an await, so a request *)
(* is served to its end before the next one starts                         *)
(***************************************************************************)
\* requests one process serves in a behaviour
MaxInvocations == 2

Endpoints == {"run_birthday_scout", "run_spotify_scout"}

\* the customer numbers the invocation sent call requests to
called_numbers == [k \in 1..Len(calls) |-> calls[k].customer.number]

\* the next POST /birthday-scout/run: scout = BirthdayScout(...)
run_birthday_scout_again ==
    /\ driver \in Endpoints /\ pc = "done"
    /\ Len(earlier) + 1 < MaxInvocations
    /\ earlier' = Append(earlier, called_numbers)
    /\ \E k \in EnvValues, a \in EnvValues :
           Fresh("run_birthday_scout", "check_vapi_config", BirthdayScout_init(k, a), None)

\* the next POST /spotify-scout/run: scout = SpotifyScout()
run_spotify_scout_again ==
    /\ driver \in Endpoints /\ pc = "done"
    /\ Len(earlier) + 1 < MaxInvocations
    /\ earlier' = Append(earlier, called_numbers)
    /\ \E i \in SetOrUnset, s \in SetOrUnset, k \in EnvValues, a \in SetOrUnset,
          p \in SetOrUnset :
           Fresh("run_spotify_scout", "check_config", SpotifyScout_init(i, s, k, a, p), None)

\* the clock stands still here: a day changing during a request is the
\* business of Spec
RepeatNext ==
    \/ run_birthday_scout
    \/ run_birthday_scout_check
    \/ BirthdayScout_fetch_begin
    \/ BirthdayScout_fetch_end
    \/ run_birthday_scout_filter
    \/ BirthdayScout_report_begin
    \/ BirthdayScout_report_prepare
    \/ BirthdayScout_report_call
    \/ BirthdayScout_report_end
    \/ run_birthday_scout_again
    \/ run_spotify_scout
    \/ run_spotify_scout_check
    \/ SpotifyScout_fetch_begin
    \/ SpotifyScout_fetch_end
    \/ run_spotify_scout_recent
    \/ run_spotify_scout_again

SpecRepeat == Init /\ [][RepeatNext]_vars

(***************************************************************************)
(* Properties of POST /birthday-scout/run                                  *)
(***************************************************************************)
\* C1: in POST /birthday-scout/run, when PRIVATE_API_KEY or ASSISTANT_ID is
\* unset (or empty), the configuration check ends the request with HTTP 500
\* and the body {success: false, error: "Vapi not configured. Check
\* environment variables."}; no spreadsheet request is sent, no call is
\* placed and no workflow step runs in that invocation.
C1_VapiUnsetAnswers500 ==
    (/\ driver = "run_birthday_scout"
     /\ ~Truthy(cfg.vapi_private_api_key) \/ ~Truthy(cfg.vapi_assistant_id)
     /\ pc /= "check_vapi_config")
    => /\ pc = "done"
       /\ response = JSONResponse(500,
              [success |-> FALSE,
               error |-> <<"Vapi not configured. Check environment variables.">>])
       /\ source_calls = 0
       /\ calls = << >>
       /\ trace = << >>
       /\ fetched = None

\* the request has ended with the assistant id unset and the key set
C1_Witness ==
    /\ driver = "run_birthday_scout"
    /\ pc = "done"
    /\ Truthy(cfg.vapi_private_api_key)
    /\ cfg.vapi_assistant_id = None
    /\ response /= None
    /\ response[1].status_code = 500

(***************************************************************************)
(* Properties of every run                                                 *)
(***************************************************************************)
\* C2: in every run, a request is sent to a source provider or to the call
\* provider only after both configuration checks (source credentials present,
\* call-provider credentials present) have passed in that run.
C2_NetworkOnlyAfterBothChecks ==
    (source_calls > 0 \/ Len(calls) > 0) => {"source", "vapi"} \subseteq checked

\* C3: within one run, status only moves forward (never back to idle, never
\* back to fetching once past it), and once status is "error" it stays
\* "error" and no further workflow step executes.
C3_ForwardAndErrorFinal ==
    [][driver' = driver =>
          LET rank(st) == CASE st \in {"idle", "running"} -> 0
                            [] st = "fetching" -> 1
                            [] OTHER -> 2
          IN  /\ rank(status) <= rank(status')
              /\ status = "error" => (status' = "error" /\ trace' = trace)]_vars

\* C4 as the specification states it: status is always one of idle, fetching,
\* processing/filtering, reporting, completed, error.
C4_StatusInStatedEnum ==
    status \in {"idle", "fetching", "processing", "filtering", "reporting",
                "completed", "error"}

\* C4: the status of BirthdayScout, SpotifyScout and GoogleFlightsScout is
\* always one of idle, fetching, reporting, completed, error; the status of
\* the base Scout is always one of idle, running, fetching, processing,
\* processed, sending, completed, error.
C4_StatusPerClass ==
    IF driver = "Scout_run"
    THEN status \in {"idle", "running", "fetching", "processing", "processed",
                     "sending", "completed", "error"}
    ELSE status \in {"idle", "fetching", "reporting", "completed", "error"}

\* the base Scout has run to the end, through a status the stated enum lacks
C4_Witness ==
    /\ driver = "Scout_run"
    /\ pc = "done"
    /\ status = "completed"
    /\ trace = <<"fetch", "process", "send_results">>

(***************************************************************************)
(* Properties of BirthdayScout's fetch and filter                          *)
(***************************************************************************)
\* C5: whatever rows the spreadsheet returns, every record fetch_birthdays
\* returns comes from a row with a non-empty name, a numeric month and a
\* numeric day, and the other rows do not turn the fetch into an error.
C5_UnqualifiedRowsDroppedSilently ==
    (/\ driver = "run_birthday_scout"
     /\ fetched /= None
     /\ fetched[1].asked
     /\ fetched[1].answer /= None)
    => LET rows == IF fetched[1].answer[1] = << >> THEN << >>
                   ELSE Tail(fetched[1].answer[1])
           Numeric(cell) == cell /= << >> /\ \A i \in 1..Len(cell) : cell[i] \in DecimalChars
           Qualifies(row) == /\ Len(row) >= 5
                             /\ row[2] /= << >>
                             /\ Numeric(row[4])
                             /\ Numeric(row[5])
       IN  /\ fetched[1].status /= "error"
           /\ \A k \in 1..Len(fetched[1].returned) :
                \E i \in 1..Len(rows) :
                    /\ Qualifies(rows[i])
                    /\ fetched[1].returned[k].name = rows[i][2]
                    /\ fetched[1].returned[k].month = Some(int(rows[i][4]))
                    /\ fetched[1].returned[k].day = Some(int(rows[i][5]))

\* C6: get_todays_birthdays returns exactly the fetched records whose month
\* and day equal the current date's month and day, in their original order,
\* whatever their year is.
C6_TodaysBirthdaysExact ==
    [][run_birthday_scout_filter =>
          LET c == FromOrdinal(now.day)
              idx == {i \in 1..Len(results) :
                         /\ results[i].month = Some(c.month)
                         /\ results[i].day = Some(c.day)}
          IN  /\ Len(todays') = Cardinality(idx)
              /\ \A k \in 1..Len(todays') :
                   \E i \in idx : /\ Cardinality({j \in idx : j < i}) = k - 1
                                  /\ todays'[k] = results[i]]_vars

\* the filter has kept some of the fetched records and dropped others
C6_Witness ==
    /\ driver = "run_birthday_scout"
    /\ pc = "report_results"
    /\ Len(todays) >= 1
    /\ Len(todays) < Len(results)

\* C7: fetch_birthdays skips the first row and returns, in sheet order,
\* exactly one record for each later row with a non-empty name, a numeric
\* month and a numeric day: month and day as integers, year as the digit
\* string or null.
C7_OneRecordPerQualifyingRow ==
    (/\ driver = "run_birthday_scout"
     /\ fetched /= None
     /\ fetched[1].asked
     /\ fetched[1].answer /= None
     /\ fetched[1].answer[1] /= << >>)
    => LET rows == Tail(fetched[1].answer[1])
           Numeric(cell) == cell /= << >> /\ \A i \in 1..Len(cell) : cell[i] \in DecimalChars
           Qualifies(row) == /\ Len(row) >= 5
                             /\ row[2] /= << >>
                             /\ Numeric(row[4])
                             /\ Numeric(row[5])
           Record(row) == [name |-> row[2],
                           year |-> IF Numeric(row[3]) THEN Some(row[3]) ELSE None,
                           month |-> Some(int(row[4])),
                           day |-> Some(int(row[5]))]
           idx == {i \in 1..Len(rows) : Qualifies(rows[i])}
       IN  /\ Len(fetched[1].returned) = Cardinality(idx)
           /\ \A k \in 1..Len(fetched[1].returned) :
                \E i \in idx : /\ Cardinality({j \in idx : j < i}) = k - 1
                               /\ fetched[1].returned[k] = Record(rows[i])

(***************************************************************************)
(* Properties of SpotifyScout's fetch                                      *)
(***************************************************************************)
\* C8: every episode fetch_physics_episodes returns has a release_date that
\* parses as YYYY-MM-DD and lies in the closed window from 60 days before the
\* day of the fetch to the day of the fetch.
C8_EpisodesInsideWindow ==
    (driver = "run_spotify_scout" /\ fetched /= None)
    => \A k \in 1..Len(fetched[1].returned) :
         LET d == fetched[1].returned[k].release_date
         IN  /\ d /= << >>
             /\ ~strptimeRaises(d)
             /\ strptime(d).day >= fetched[1].at.day - 60
             /\ strptime(d).day <= fetched[1].at.day

(***************************************************************************)
(* Properties of GoogleFlightsScout's fetch                                *)
(***************************************************************************)
\* C9: whatever the searches answer, the list fetch_flight_deals returns is
\* the list it stores in results; it is sorted ascending by price, has at
\* most 20 entries, and every entry's price is at most 500.
C9_DealsSortedCappedCheap ==
    driver = "GoogleFlightsScout_main"
    => /\ Len(results) <= 20
       /\ \A i \in 1..Len(results) : results[i].price <= 500
       /\ \A i \in 1..Len(results) : \A j \in i..Len(results) :
            results[i].price <= results[j].price
       /\ pc = "report_results" => ret = Some(results)

\* more than 20 accepted flights were found and 20 of them returned
C9_Witness ==
    /\ driver = "GoogleFlightsScout_main"
    /\ pc = "report_results"
    /\ Len(all_flights) > 20
    /\ Len(results) = 20
    /\ results[1].price < results[20].price

(***************************************************************************)
(* Properties of the formatters                                            *)
(***************************************************************************)
\* C10: given an empty list, each of format_birthdays_for_prompt,
\* format_episodes_for_prompt and format_flights_for_prompt returns its fixed
\* "no results" sentence, which is never the empty string.
C10_EmptyListFixedSentence ==
    (pc = "done" /\ results = << >>)
    => /\ prompt_text /= << >>
       /\ \A i \in 1..Len(prompt_text) : prompt_text[i] /= ""
       /\ driver = "format_birthdays_for_prompt"
            => prompt_text = <<"No birthdays today">>
       /\ driver = "format_episodes_for_prompt"
            => prompt_text = <<"No physics episodes released in the past week">>
       /\ driver = "format_flights_for_prompt"
            => prompt_text = <<"No flight deals found under $", "5", "0", "0",
                               " to Europe from ", "FLL">>

\* the flights formatter has been given the empty list
C10_Witness ==
    /\ driver = "format_flights_for_prompt"
    /\ pc = "done"
    /\ results = << >>
    /\ Len(prompt_text) > 1

(***************************************************************************)
(* Properties of the fetch operations' failures                            *)
(***************************************************************************)
\* C11: when a request to the source provider fails (network,
\* authentication) or its answer cannot be parsed, the fetch operation
\* (fetch_birthdays, fetch_physics_episodes, fetch_flight_deals) returns the
\* empty list with error_message set.
C11_FetchFailsSoftly ==
    (/\ driver \in {"run_birthday_scout", "run_spotify_scout", "GoogleFlightsScout_main"}
     /\ fetched /= None
     /\ pc /= "searching"
     /\ fetched[1].failed)
    => /\ fetched[1].returned = << >>
       /\ fetched[1].error_message /= None

(***************************************************************************)
(* Properties of report_results                                            *)
(***************************************************************************)
\* C12: when report_results dispatches to its subscribers (configuration
\* valid, a subscriber listed, something to report for the birthday scout),
\* exactly one call request is sent per subscriber with a phone number, in
\* list order, whatever the outcome of the earlier calls.
C12_OneCallPerSubscriber ==
    (/\ driver \in {"run_birthday_scout", "SpotifyScout_main"}
     /\ pc = "done"
     /\ \E i \in 1..Len(trace) : trace[i] = "report_results"
     /\ "vapi" \in checked
     /\ Len(subscribers) > 0
     /\ driver = "run_birthday_scout" => todays_birthdays /= << >>)
    => LET idx == {i \in 1..Len(subscribers) : subscribers[i].phone /= << >>}
       IN  /\ Len(calls) = Cardinality(idx)
           /\ \A k \in 1..Len(calls) :
                \E i \in idx :
                    /\ Cardinality({j \in idx : j < i}) = k - 1
                    /\ calls[k].customer.number = <<"+1">> \o subscribers[i].phone

(***************************************************************************)
(* Properties of make_call_with_variables                                  *)
(***************************************************************************)
\* C13: for every phone number, every template variables and every outcome
\* of the call provider, make_call_with_variables does not raise; it returns
\* the provider's response, which carries an id, or an error-shaped result
\* with error true and a message; the customer number of the request it
\* sends is "+1" followed by the phone number it was given.
C13_CallReturnsResponseOrError ==
    (driver = "make_call_with_variables" /\ pc = "done")
    => /\ raised = None
       /\ ret /= None
       /\ \/ ret[1].error /\ ret[1].message /= None
          \/ ~ret[1].error /\ ret[1].id /= None
       /\ Len(calls) = 1
       /\ calls[1].customer.number = <<"+1">> \o results.phone_number

(***************************************************************************)
(* Properties of POST /spotify-scout/run                                   *)
(***************************************************************************)
\* C14: POST /spotify-scout/run, with the Spotify and call-provider
\* configuration present and a fetch that returned at least one episode
\* released in the last 7 days, places one call to every subscriber and
\* answers HTTP 200 with {success: true, message, episodes}.
C14_EpisodesReportedToAll ==
    (/\ driver = "run_spotify_scout"
     /\ pc = "done"
     /\ {"source", "vapi"} \subseteq checked
     /\ fetched /= None
     /\ \E k \in 1..Len(fetched[1].returned) :
          LET d == strptime(fetched[1].returned[k].release_date).day
          IN  d >= fetched[1].at.day - 6 /\ d <= fetched[1].at.day)
    => /\ response /= None
       /\ response[1].status_code = 200
       /\ response[1].content.success
       /\ Len(calls) = Len(subscribers)

(***************************************************************************)
(* Properties of the endpoints' early answers                              *)
(***************************************************************************)
\* C15: when the fetch returns the empty list, with or without a fetch
\* error, the birthday endpoint answers success false with the message "No
\* birthdays found in spreadsheet", the episode endpoint answers success
\* true with an empty episodes list, and in both the run ends there: no
\* report step runs and no call is placed.
C15_EmptyFetchEndsRun ==
    (/\ driver \in {"run_birthday_scout", "run_spotify_scout"}
     /\ fetched /= None
     /\ fetched[1].returned = << >>)
    => /\ pc = "done"
       /\ calls = << >>
       /\ \A i \in 1..Len(trace) : trace[i] \notin {"report_results",
                                                   "make_call_with_variables"}
       /\ response /= None
       /\ response[1].status_code = 200
       /\ IF driver = "run_birthday_scout"
          THEN /\ ~response[1].content.success
               /\ response[1].content.message = <<"No birthdays found in spreadsheet">>
          ELSE /\ response[1].content.success
               /\ response[1].content.episodes = << >>

\* the episode endpoint has answered an empty fetch that a fetch error caused
C15_Witness ==
    /\ driver = "run_spotify_scout"
    /\ pc = "done"
    /\ fetched /= None
    /\ fetched[1].status = "error"
    /\ fetched[1].returned = << >>
    /\ response /= None
    /\ response[1].content.success

\* C16: in both endpoints, when the fetch returned records but none of them
\* is of today (birthdays) or of the last 7 days (episodes), the endpoint
\* answers HTTP 200 with success true and an empty list, and places no call.
C16_NothingRecentIsSuccess ==
    (/\ driver \in {"run_birthday_scout", "run_spotify_scout"}
     /\ pc = "done"
     /\ fetched /= None
     /\ fetched[1].returned /= << >>
     /\ IF driver = "run_birthday_scout"
        THEN todays = << >>
        ELSE \A k \in 1..Len(fetched[1].returned) :
               LET d == strptime(fetched[1].returned[k].release_date).day
               IN  d < fetched[1].at.day - 7 \/ d > fetched[1].at.day + 1)
    => /\ calls = << >>
       /\ response /= None
       /\ response[1].status_code = 200
       /\ response[1].content.success
       /\ IF driver = "run_birthday_scout"
          THEN response[1].content.todays_birthdays = << >>
          ELSE response[1].content.episodes = << >>

\* C17: the episode scout filters twice: the fetch keeps the episodes
\* released in the last 60 days, and of those only the episodes released in
\* the last 7 days are returned by the endpoint and put into the prompt of
\* every call.
C17_TwoStageEpisodeFilter ==
    (/\ driver = "run_spotify_scout"
     /\ pc = "done"
     /\ fetched /= None
     /\ fetched[1].returned /= << >>)
    => LET released(e) == strptime(e.release_date).day
           recent == SelectSeq(fetched[1].returned,
                         LAMBDA e : released(e) >= fetched[1].at.day - 7)
       IN  /\ \A k \in 1..Len(fetched[1].returned) :
                released(fetched[1].returned[k]) >= fetched[1].at.day - 60
           /\ response /= None
           /\ response[1].status_code = 200
           /\ response[1].content.episodes = recent
           /\ \A k \in 1..Len(calls) :
                calls[k].assistantOverrides.variableValues.recentPhysicsEpisodes
                    = format_episodes_for_prompt(recent)

\* C18: an exception raised inside either run endpoint is caught by the
\* endpoint's handler: the run ends with the HTTP 500 response
\* {success: false, error: "Internal server error: <exception text>"}, and
\* every finished run of an endpoint has a response.
C18_ExceptionsBecome500 ==
    driver \in {"run_spotify_scout", "run_birthday_scout"}
    => /\ raised /= None
          => /\ pc = "done"
             /\ response = Some([status_code |-> 500,
                                 content |-> [success |-> FALSE,
                                              error |-> <<"Internal server error: ">>
                                                        \o raised[1]]])
       /\ pc = "done" => response /= None

\* an endpoint run in which an exception reached the handler
C18_Witness ==
    /\ driver = "run_spotify_scout"
    /\ pc = "done"
    /\ raised /= None
    /\ response /= None
    /\ response[1].status_code = 500
    /\ \E k \in 1..Len(trace) : trace[k] = "fetch_physics_episodes"

\* C19: report_results of the episode scout and of the flight scout, run
\* with an empty results list and a valid call-provider configuration, still
\* places the call to each subscriber with a phone number, and the call carries
\* the formatter's fixed "no results" sentence as its template variable.
C19_EmptyResultsStillCalled ==
    (/\ driver \in {"SpotifyScout_main", "GoogleFlightsScout_main"}
     /\ pc = "done"
     /\ "vapi" \in checked
     /\ results = << >>)
    => IF driver = "SpotifyScout_main"
       THEN LET idx == {i \in 1..Len(subscribers) : subscribers[i].phone /= << >>}
            IN  /\ Len(calls) = Cardinality(idx)
                /\ \A k \in 1..Len(calls) :
                     calls[k].assistantOverrides.variableValues.recentPhysicsEpisodes
                         = format_episodes_for_prompt(<< >>)
       ELSE cfg.subscriber_phone /= << >>
            => /\ Len(calls) = 1
               /\ calls[1].customer.number = <<"+1">> \o cfg.subscriber_phone
               /\ calls[1].assistantOverrides.variableValues.flightDeals
                      = format_flights_for_prompt(<< >>)

\* C20: when BirthdayScout.report_results runs with the call-provider key
\* and assistant id set and at least one subscriber, and no fetched birthday
\* has today's month and day, it returns True, leaves the status "completed"
\* and places no call.
C20_NoBirthdaysTodayReportsNothing ==
    [][(/\ driver = "run_birthday_scout"
        /\ pc = "reporting"
        /\ pc' /= "reporting"
        /\ Truthy(cfg.vapi_private_api_key)
        /\ Truthy(cfg.vapi_assistant_id)
        /\ Len(subscribers) > 0
        /\ LET c == FromOrdinal(now.day)
           IN  \A k \in 1..Len(results) :
                   ~(results[k].month = Some(c.month) /\ results[k].day = Some(c.day)))
       => (/\ pc' = "done"
           /\ status' = "completed"
           /\ calls' = calls
           /\ calls' = << >>
           /\ ret' = Some(TRUE))]_vars

\* report_results has returned early: birthdays fetched, none of them today
C20_Witness ==
    /\ driver = "run_birthday_scout"
    /\ pc = "done"
    /\ \E k \in 1..Len(trace) : trace[k] = "report_results"
    /\ "vapi" \in checked
    /\ Len(subscribers) > 0
    /\ results /= << >>
    /\ todays_birthdays = << >>
    /\ ret = Some(TRUE)
    /\ status = "completed"
    /\ calls = << >>

(***************************************************************************)
(* Properties of repeated invocations                                      *)
(***************************************************************************)
\* C21: within one invocation of POST /birthday-scout/run a subscriber is
\* sent at most one call request, also when that request returned an error
\* (no retry); and an invocation that gets through the loop over the
\* subscribers has sent one call request to every subscriber with a phone
\* number, whatever the earlier invocations have already sent (no
\* idempotency).
C21_NoRetryNoIdempotency ==
    driver = "run_birthday_scout"
    => LET idx == {i \in 1..Len(subscribers) : subscribers[i].phone /= << >>}
       IN  /\ Len(calls) <= Cardinality(idx)
           /\ \A i \in 1..Len(calls) : \A j \in 1..Len(calls) :
                i /= j => calls[i].customer.number /= calls[j].customer.number
           /\ (pc = "done" /\ sub_idx > Len(subscribers))
              => /\ Len(calls) = Cardinality(idx)
                 /\ \A i \in idx : \E k \in 1..Len(calls) :
                      calls[k].customer.number = <<"+1">> \o subscribers[i].phone

\* a second invocation has called the subscriber the first one had called,
\* and its one request, which returned an error, was not repeated
C21_Witness ==
    /\ driver = "run_birthday_scout"
    /\ pc = "done"
    /\ sub_idx > Len(subscribers)
    /\ Len(earlier) = 1
    /\ earlier[1] /= << >>
    /\ called_numbers = earlier[1]
    /\ Len(call_results) = 1
    /\ call_results[1].error

\* C22: every request to an endpoint constructs its own scout: whatever
\* results, status and error_message the request before left, the request
\* starts from the state the constructor gives: status "idle", no
\* error_message, no results, no client of the source, nothing sent and
\* nothing answered yet.
C22_EveryRequestOwnInstance ==
    [][(/\ driver \in Endpoints
        /\ pc = "done"
        /\ pc' /= "done"
        /\ driver' \in Endpoints)
       => (/\ status' = "idle"
           /\ error_message' = None
           /\ results' = << >>
           /\ gc' = None
           /\ worksheet' = None
           /\ spotify_api' = None
           /\ subscribers' = DefaultSubscribers
           /\ todays' = << >>
           /\ todays_birthdays' = << >>
           /\ prompt_text' = << >>
           /\ sub_idx' = 0
           /\ ret' = None
           /\ response' = None
           /\ calls' = << >>)]_vars

\* a request has just constructed its scout after a request that had fetched
\* results and called the subscriber
C22_Witness ==
    /\ driver \in Endpoints
    /\ pc \in {"check_vapi_config", "check_config"}
    /\ Len(earlier) >= 1
    /\ earlier[Len(earlier)] /= << >>
    /\ status = "idle"
    /\ results = << >>

C25_RunResultMatchesStatus ==
    driver = "Scout_run"
    => /\ pc = "check_if_results" => Len(results) > 0
       /\ pc = "done"
          => /\ ret \in {Some(TRUE), Some(FALSE)}
             /\ ret = Some(TRUE) <=> status = "completed"
             /\ ret = Some(FALSE) <=> (status = "error" /\ error_message /= None)
             /\ error_message /= Some(<<"No results found">>)
             /\ status = "completed" => error_message = None

\* run has gone through fetch, process and send_results and returned True
C25_Witness ==
    /\ driver = "Scout_run"
    /\ pc = "done"
    /\ ret = Some(TRUE)
    /\ status = "completed"
    /\ error_message = None
    /\ Len(results) = 1
    /\ results[1].processed_at /= None
    /\ \E k \in 1..Len(trace) : trace[k] = "send_results"

(***************************************************************************)
(* Properties of the two evaluations of get_todays_birthdays               *)
(***************************************************************************)
\* C26: in POST /birthday-scout/run, whenever the response reports success
\* true and a non-empty list of today's birthdays, a call request was sent in
\* that invocation for every subscriber that has a phone number, also when
\* the day changes between the endpoint's get_todays_birthdays and the one
\* inside report_results.
C26_SuccessMeansEveryoneCalled ==
    (/\ driver = "run_birthday_scout"
     /\ pc = "done"
     /\ response /= None
     /\ response[1].status_code = 200
     /\ response[1].content.success
     /\ "todays_birthdays" \in DOMAIN response[1].content
     /\ response[1].content.todays_birthdays /= << >>)
    => LET idx == {i \in 1..Len(subscribers) : subscribers[i].phone /= << >>}
       IN  /\ Len(calls) = Cardinality(idx)
           /\ \A i \in idx : \E k \in 1..Len(calls) :
                calls[k].customer.number = <<"+1">> \o subscribers[i].phone

(***************************************************************************)
(* Properties of repeated fetches on one instance                          *)
(***************************************************************************)
\* C27: on one BirthdayScout instance whose client is set and whose worksheet
\* is unset (the state _initialize_gspread leaves when it fails after the
\* client was authorized), fetch_birthdays skips the initialization, sends no
\* request, returns an empty list and leaves status "error" with an
\* error_message, whatever the spreadsheet service would answer now.
C27_HalfInitializedStaysBroken ==
    [][(/\ driver = "BirthdayScout"
        /\ gc /= None
        /\ worksheet = None
        /\ trace' /= trace)
       => (/\ status' = "error"
           /\ error_message' /= None
           /\ ret' = Some(<< >>)
           /\ source_calls' = source_calls
           /\ gc' = gc
           /\ worksheet' = None)]_vars

\* a fetch has failed on the half-initialized instance although the
\* spreadsheet service would have answered the initialization
C27_Witness ==
    /\ driver = "BirthdayScout"
    /\ Len(trace) >= 2
    /\ gc /= None
    /\ worksheet = None
    /\ fetched /= None
    /\ fetched[1].service = "ok"
    /\ fetched[1].requests = 0
    /\ status = "error"
    /\ ret = Some(<< >>)

(***************************************************************************)
(* Properties of fetch_physics_episodes and of SpotifyAPI                  *)
(***************************************************************************)
\* C28: when the answer of the podcast search is empty or has no "episodes"
\* entry, fetch_physics_episodes returns an empty list, leaves the status
\* "completed" and leaves error_message unset.
C28_NoEpisodesEntryIsCompleted ==
    (/\ driver = "run_spotify_scout"
     /\ fetched /= None
     /\ fetched[1].asked
     /\ fetched[1].answer /= None
     /\ ~fetched[1].answer[1].has_episodes)
    => /\ fetched[1].returned = << >>
       /\ fetched[1].status = "completed"
       /\ fetched[1].error_message = None

\* C29: on one SpotifyAPI instance that holds a token, get_access_token and
\* search send no token request, leave the stored token as it is and use it;
\* on an instance without a token they send one token request, and a token
\* request that fails stores nothing, so that the call after it sends a token
\* request again, while one that succeeds stores the token it got.
C29_TokenRequestedOnce ==
    [][(/\ driver = "SpotifyAPI"
        /\ pc = "ready"
        /\ trace' /= trace)
       => IF spotify_api[1].access_token /= None
          THEN /\ source_calls' = source_calls
               /\ spotify_api' = spotify_api
               /\ ~fetched'[1].token_raised
               /\ fetched'[1].token = spotify_api[1].access_token
          ELSE /\ source_calls' = source_calls + 1
               /\ IF fetched'[1].token_raised
                  THEN spotify_api'[1].access_token = None
                  ELSE /\ spotify_api'[1].access_token /= None
                       /\ spotify_api'[1].access_token = fetched'[1].token]_vars

\* a failed token request, then a successful one, then a search that sent
\* no token request and used the stored token
C29_Witness ==
    /\ driver = "SpotifyAPI"
    /\ trace = <<"get_access_token", "get_access_token", "search">>
    /\ source_calls = 2
    /\ spotify_api[1].access_token /= None
    /\ fetched[1].searched
    /\ fetched[1].token = spotify_api[1].access_token

====
